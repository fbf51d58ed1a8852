---------------------------- MODULE LibraryProofs -----------------------------
(***************************************************************************)
(* The state machines over the library, for every value of their constants:*)
(* a key that is written as a text is read as itself (SiteFile), and the   *)
(* node keeps its identity and the RPC client its data (Wallet).           *)
(***************************************************************************)
EXTENDS SiteFile, Wallet, CodecProofs

-------------------------------------------------------------------------------
(* Kinds of addresses.                                                     *)

\* Every kind has a version of its own, and none that of an empty object.
LEMMA KindsAre ==
    Kinds = {"nodePublic", "nodePrivate", "accountID", "accountPublic", "accountPrivate",
             "generator", "seed"}
BY DEF Kinds, VER

LEMMA VersionsAre ==
    /\ VER["nodePublic"] = 28 /\ VER["nodePrivate"] = 32 /\ VER["accountID"] = 0
    /\ VER["accountPublic"] = 35 /\ VER["accountPrivate"] = 34 /\ VER["generator"] = 41
    /\ VER["seed"] = 33
BY DEF VER

LEMMA VersionsDiffer ==
    \A k \in Kinds : /\ VER[k] \in Byte /\ VER[k] # 1
                     /\ \A l \in Kinds : VER[k] = VER[l] => k = l
BY KindsAre, VersionsAre DEF Byte

LEMMA KindIs ==
    ASSUME NEW a, NEW k \in Kinds, Is(a, k)
    PROVE  KindOf(a) = k
<1>1. KindOf(a) \in Kinds /\ Is(a, KindOf(a))
  BY DEF KindOf
<1> QED BY <1>1, VersionsDiffer DEF Is

LEMMA setOfIs ==
    ASSUME NEW t, NEW kind \in Kinds
    PROVE  setOf(t, kind) = SetString(t, VER[kind])
BY KindsAre DEF setOf, setNodePublic, setNodePrivate, setAccountID, setAccountPublic,
   setAccountPrivate, setGenerator, setSeed

\* The text of an object of a kind, or nothing.
LEMMA humanOfIs ==
    ASSUME NEW a, NEW kind \in Kinds
    PROVE  humanOf(a)[kind] = IF kind = "accountID" THEN humanAccountID(a) ELSE Human(a, kind)
BY KindsAre DEF humanOf, humanNodePublic, humanNodePrivate, humanAccountPublic,
   humanAccountPrivate, humanGenerator, humanSeed

-------------------------------------------------------------------------------
(* Texts with spaces around them.                                          *)

\* t is w with spaces on either side, or none.
Around(w, t) == \E before \in Seq(Spaces), after \in Seq(Spaces) : t = before \o (w \o after)

LEMMA EmptyIn ==
    ASSUME NEW E
    PROVE  \E e \in Seq(E) : e = <<>>
BY EmptySeq

LEMMA AroundSame ==
    ASSUME NEW w \in Seq(Nat)
    PROVE  Around(w, w)
<1>1. PICK e \in Seq(Spaces) : e = <<>>
  BY EmptyIn
<1>2. w \o e = w /\ e \o w = w
  BY <1>1, ConcatEmptySeq
<1>3. w = e \o (w \o e)
  BY <1>2
<1> QED BY <1>3 DEF Around

LEMMA AroundPadded ==
    ASSUME NEW w \in Seq(Nat)
    PROVE  Around(w, <<Space>> \o w \o <<Space>>) /\ <<Space>> \o w \o <<Space>> # <<>>
<1>1. PICK E : E = Spaces
  OBVIOUS
<1>2. Space \in E /\ Space \in Nat
  BY <1>1 DEF Spaces, Space
<1>3. PICK sp : sp = <<Space>>
  OBVIOUS
<1>4. sp \in Seq(E) /\ sp \in Seq(Nat) /\ Len(sp) = 1
  BY <1>2, <1>3, OneIs
<1>5. (sp \o w) \o sp = sp \o (w \o sp)
  <2>1. sp \in Seq(Nat)
    BY <1>4
  <2> QED BY <2>1, ConcatAssociative
<1>6. Around(w, (sp \o w) \o sp)
  BY <1>1, <1>4, <1>5 DEF Around
<1>7. (sp \o w) \o sp # <<>>
  <2>1. sp \in Seq(Nat)
    BY <1>4
  <2>2. PICK u \in Seq(Nat) : u = sp \o w /\ Len(u) = Len(sp) + Len(w)
    BY <2>1, CatIs
  <2>3. Len(u \o sp) = Len(u) + Len(sp)
    BY <2>1, CatIs
  <2>4. PICK n \in Nat : n = Len(u)
    OBVIOUS
  <2>5. Len(u \o sp) = n + 1 /\ n + 1 # 0
    BY <1>4, <2>3, <2>4
  <2> QED BY <2>2, <2>5
<1> QED BY <1>3, <1>6, <1>7

-------------------------------------------------------------------------------
(* What the calls read.                                                    *)

\* Words are no digits.
LEMMA WordsNotDecoded ==
    ASSUME NEW bytes \in Sixteen, NEW t, Around(key2eng(bytes), t)
    PROVE  DecodeBase58Check(t) = <<>>
<1>1. PICK before \in Seq(Spaces), after \in Seq(Spaces) : t = before \o (key2eng(bytes) \o after)
  BY DEF Around
<1>2. before \in Seq(Nat) /\ after \in Seq(Nat) /\ AllIn(before, Spaces)
  <2>1. Spaces \subseteq Nat
    BY SpaceNoDigit
  <2> QED BY <2>1, SeqMonotonic, AllInSeq
<1>3. PICK n \in Nat : n = 12 /\ n # 0
  OBVIOUS
<1>4. PICK w : w = key2eng(bytes) /\ Spaced(w, n)
  BY <1>3, KeyTextIs
<1>5. w \in Seq(Nat)
  BY <1>4 DEF Spaced
<1>6. PICK body \in Seq(Nat) : body = w \o after
  BY <1>2, <1>5, ConcatProperties
<1>7. Len(w) # 0 /\ w[1] \in Letter
  <2>1. (2 * n) - 1 # 0 /\ 1 \in 1..n /\ (2 * 1) - 1 = 1
    BY <1>3
  <2> QED BY <1>4, <2>1 DEF Spaced
<1>8. body[1] = w[1] /\ body # <<>>
  <2>1. PICK m \in Nat : m = Len(w) /\ m # 0
    BY <1>5, <1>7
  <2>2. 1 \in 1..Len(w)
    BY <2>1
  <2>3. body[1] = w[1] /\ Len(body) = Len(w) + Len(after)
    BY <1>2, <1>5, <1>6, <2>2, CatIs
  <2>4. PICK k \in Nat : k = Len(after)
    BY <1>2
  <2>5. m + k # 0
    BY <2>1
  <2> QED BY <2>1, <2>3, <2>4, <2>5
<1>9. w[1] \notin Spaces /\ w[1] \notin 0..57
  <2>1. w[1] = pcDict(NumberAt(BitsOfHalf(bytes, 1), 1))
    <3>1. 1 \in 1..6 /\ (2 * 1) - 1 = 1
      OBVIOUS
    <3> QED BY <1>4, <3>1, KeyTextIs
  <2>2. PICK b \in Bits66 : b = BitsOfHalf(bytes, 1)
    BY HalfBits
  <2>3. NumberAt(b, 1) \in WordNumbers
    <3>1. \A k \in 1..6 : NumberAt(b, k) \in WordNumbers
      BY NumbersBack
    <3>2. 1 \in 1..6
      OBVIOUS
    <3> QED BY <3>1, <3>2
  <2>4. pcDict(NumberAt(b, 1)) \in Nat /\ pcDict(NumberAt(b, 1)) >= 1000
    BY <2>3, WordIs
  <2>5. w[1] \in Nat /\ w[1] >= 1000
    BY <2>1, <2>2, <2>4
  <2>6. PICK c \in Nat : c = w[1] /\ c >= 1000
    BY <2>5
  <2>7. c \notin 0..57
    <3>1. \A x \in Nat : x >= 1000 => ~(x <= 57)
      OBVIOUS
    <3>2. ~(c <= 57)
      BY <2>6, <3>1
    <3> QED BY <3>2
  <2> QED BY <1>7, <2>6, <2>7 DEF Letter
<1>10. BeginsOutside(body, Spaces) /\ BeginsOutside(body, 0..57)
  BY <1>8, <1>9 DEF BeginsOutside
<1>11. Behind(t, Spaces) = body
  BY <1>1, <1>2, <1>4, <1>6, <1>10, CutAt
<1>12. PICK e \in Seq(Nat) : e = <<>>
  BY EmptyIn
<1>13. AllIn(e, 0..57) /\ AllIn(e, Spaces) /\ e \o body = body
  BY <1>12, ConcatEmptySeq DEF AllIn
<1>14. Behind(e \o body, 0..57) = body /\ Behind(e \o body, Spaces) = body
  BY <1>10, <1>13, CutAt
<1>15. DecodeBody(body) = NotDecoded
  BY <1>8, <1>13, <1>14 DEF DecodeBody, WithZeros
<1>16. DecodeBase58(t) = NotDecoded
  BY <1>11, <1>15 DEF DecodeBase58
<1>17. Len(NotDecoded) = 1
  BY DEF NotDecoded
<1>18. Checked(NotDecoded) = <<>>
  <2>1. ~(1 - 4 >= 0)
    OBVIOUS
  <2> QED BY <1>17, <2>1 DEF Checked
<1> QED BY <1>16, <1>18 DEF DecodeBase58Check

\* The text of an address is one piece of digits.
LEMMA AddressPiece ==
    ASSUME NEW v \in Byte, NEW d \in Seq(Byte)
    PROVE  AsString(<<v, d>>) \in Seq(Nat) /\ AllIn(AsString(<<v, d>>), Digit) /\ AsString(<<v, d>>) # <<>>
<1>1. PICK b \in Seq(Byte) : b = <<v>> \o d /\ Len(b) = 1 + Len(d)
  <2>1. PICK h \in Seq(Byte) : h = <<v>> /\ Len(h) = 1
    BY OneIs
  <2>2. h \o d \in Seq(Byte) /\ Len(h \o d) = Len(h) + Len(d)
    BY CatIs
  <2> QED BY <2>1, <2>2
<1>2. PICK c \in Seq(Byte) : c = Check(b) /\ Len(c) = 4
  BY CheckType
<1>3. b \o c \in Seq(Byte) /\ Len(b \o c) = Len(b) + Len(c)
  BY CatIs
<1>4. b \o c # <<>>
  <2>1. PICK m \in Nat : m = Len(b)
    OBVIOUS
  <2>2. m + 4 # 0
    OBVIOUS
  <2> QED BY <1>2, <1>3, <2>1, <2>2
<1>5. AsString(<<v, d>>) = EncodeBase58(b \o c)
  BY <1>1, <1>2 DEF AsString, EncodeBase58Check
<1>6. EncodeBase58(b \o c) \in Seq(Digit) /\ EncodeBase58(b \o c) # <<>>
  BY <1>3, <1>4, EncodeBase58Is
<1>7. Digit \subseteq Nat
  BY DigitNoSpace
<1> QED BY <1>5, <1>6, <1>7, SeqMonotonic, AllInSeq

\* It is no key in words.
LEMMA AddressNoWords ==
    ASSUME NEW v \in Byte, NEW d \in Seq(Byte), NEW t, Around(AsString(<<v, d>>), t)
    PROVE  eng2key(t) = [rc |-> -1]
<1>1. PICK before \in Seq(Spaces), after \in Seq(Spaces) : t = before \o (AsString(<<v, d>>) \o after)
  BY DEF Around
<1>2. before \in Seq(Nat) /\ after \in Seq(Nat) /\ AllIn(before, Spaces) /\ AllIn(after, Spaces)
  <2>1. Spaces \subseteq Nat
    BY SpaceNoDigit
  <2> QED BY <2>1, SeqMonotonic, AllInSeq
<1>3. PICK p \in Seq(Nat) : p = AsString(<<v, d>>) /\ AllIn(p, Digit) /\ p # <<>>
  BY AddressPiece
<1>4. AllIn(p, Letter)
  BY <1>3, DigitNoSpace DEF AllIn, Letter
<1>5. eng2key(before \o (p \o after)) = [rc |-> -1]
  BY <1>2, <1>3, <1>4, OnePiece
<1> QED BY <1>1, <1>3, <1>5

\* Its bytes are found again.
LEMMA AddressDecoded ==
    ASSUME NEW v \in Byte, NEW d \in Seq(Byte), NEW t, Around(AsString(<<v, d>>), t), NEW version
    PROVE  /\ SetString(t, version) = IF version = v THEN [ok |-> TRUE, b58 |-> <<v, d>>]
                                      ELSE [ok |-> FALSE, b58 |-> Cleared]
           /\ SetDecoded(DecodeBase58Check(t), version) = SetString(t, version)
<1>1. PICK before \in Seq(Spaces), after \in Seq(Spaces) : t = before \o (AsString(<<v, d>>) \o after)
  BY DEF Around
<1>2. BytesAre(DecodeBase58Check(before \o (AsString(<<v, d>>) \o after)), v, d)
  BY AddressBytes
<1>3. PICK bytes : bytes = DecodeBase58Check(t)
  OBVIOUS
<1>4. bytes # <<>> /\ bytes[1] = v /\ Tail(bytes) = d
  BY <1>1, <1>2, <1>3 DEF BytesAre
<1>5. SetDecoded(bytes, version) = IF version = v THEN [ok |-> TRUE, b58 |-> <<v, d>>]
                                   ELSE [ok |-> FALSE, b58 |-> Cleared]
  BY <1>4 DEF SetDecoded
<1> QED BY <1>3, <1>5 DEF SetString

LEMMA WordsNoAddress ==
    ASSUME NEW bytes \in Sixteen, NEW t, Around(key2eng(bytes), t), NEW version
    PROVE  /\ SetString(t, version) = [ok |-> FALSE, b58 |-> Cleared]
           /\ SetDecoded(DecodeBase58Check(t), version) = [ok |-> FALSE, b58 |-> Cleared]
BY WordsNotDecoded DEF SetString, SetDecoded

\* A sequence reversed twice.
LEMMA ReverseBack ==
    ASSUME NEW E, NEW s \in Seq(E)
    PROVE  Reverse(s) \in Seq(E) /\ Len(Reverse(s)) = Len(s) /\ Reverse(Reverse(s)) = s
<1>1. PICK n \in Nat : n = Len(s)
  OBVIOUS
<1>2. \A i \in 1..n : (n - i) + 1 \in 1..n /\ (n - ((n - i) + 1)) + 1 = i
  OBVIOUS
<1>3. PICK r : r = [i \in 1..n |-> s[(n - i) + 1]]
  OBVIOUS
<1>4. \A i \in 1..n : s[(n - i) + 1] \in E
  BY <1>1, <1>2, ElementOfSeq
<1>5. r \in Seq(E) /\ Len(r) = n /\ \A i \in 1..n : r[i] = s[(n - i) + 1]
  BY <1>3, <1>4
<1>6. Reverse(s) = r
  BY <1>1, <1>3 DEF Reverse
<1>7. PICK q : q = [i \in 1..n |-> r[(n - i) + 1]]
  OBVIOUS
<1>8. Reverse(r) = q
  BY <1>5, <1>7 DEF Reverse
<1>9. ASSUME NEW i \in 1..n PROVE q[i] = s[i]
  <2>1. q[i] = r[(n - i) + 1]
    BY <1>7
  <2>2. PICK j \in 1..n : j = (n - i) + 1 /\ (n - j) + 1 = i
    BY <1>2
  <2>3. r[j] = s[(n - j) + 1]
    BY <1>5
  <2> QED BY <2>1, <2>2, <2>3
<1>10. s = [i \in 1..n |-> s[i]]
  BY <1>1
<1>11. q = s
  BY <1>7, <1>9, <1>10
<1> QED BY <1>1, <1>5, <1>6, <1>8, <1>11

LEMMA Reversed ==
    ASSUME NEW d \in Sixteen
    PROVE  Reverse(d) \in Sixteen /\ Reverse(Reverse(d)) = d
<1>1. d \in Seq(Byte) /\ Len(d) = 16
  BY DEF Sixteen
<1>2. PICK s \in Seq(Byte) : s = d
  BY <1>1
<1>3. Reverse(s) \in Seq(Byte) /\ Len(Reverse(s)) = Len(s) /\ Reverse(Reverse(s)) = s
  BY ReverseBack
<1> QED BY <1>1, <1>2, <1>3 DEF Sixteen

\* Words of a seed.
LEMMA SeedWordsRead ==
    ASSUME NEW a, NEW d \in Sixteen, NEW t, Around(key2eng(Reverse(d)), t)
    PROVE  setSeed1751(a, t) = IF KeyMissed(Reverse(d)) THEN [rc |-> 0, b58 |-> a]
                               ELSE [rc |-> 1, b58 |-> createSeed(d)]
<1>1. PICK k \in Sixteen : k = Reverse(d) /\ Reverse(k) = d
  BY Reversed
<1>2. PICK before \in Seq(Spaces), after \in Seq(Spaces) : t = before \o (key2eng(k) \o after)
  BY <1>1 DEF Around
<1>3. PICK read : read = eng2key(t)
  OBVIOUS
<1>4. setSeed1751(a, t) = [rc |-> read.rc, b58 |-> IF read.rc = 1 THEN createSeed(Reverse(read.key)) ELSE a]
  BY <1>3 DEF setSeed1751, SeedOfKey
<1>5. CASE KeyMissed(k)
  <2>1. eng2key(before \o (key2eng(k) \o after)) = [rc |-> 0]
    BY <1>5, WordsReadBack
  <2>2. read = [rc |-> 0]
    BY <1>2, <1>3, <2>1
  <2>3. read.rc = 0
    BY <2>2
  <2> QED BY <1>1, <1>4, <1>5, <2>3
<1>6. CASE ~KeyMissed(k)
  <2>1. eng2key(before \o (key2eng(k) \o after)) = [rc |-> 1, key |-> k]
    BY <1>6, WordsReadBack
  <2>2. read = [rc |-> 1, key |-> k]
    BY <1>2, <1>3, <2>1
  <2>3. read.rc = 1 /\ read.key = k
    BY <2>2
  <2> QED BY <1>1, <1>4, <1>6, <2>3
<1> QED BY <1>1, <1>5, <1>6

LEMMA AddressWordsRead ==
    ASSUME NEW a, NEW v \in Byte, NEW d \in Seq(Byte), NEW t, Around(AsString(<<v, d>>), t)
    PROVE  setSeed1751(a, t) = [rc |-> -1, b58 |-> a]
<1>1. PICK read : read = eng2key(t) /\ read = [rc |-> -1]
  BY AddressNoWords
<1>2. read.rc = -1 /\ read.rc # 1
  BY <1>1
<1>3. setSeed1751(a, t) = [rc |-> read.rc, b58 |-> IF read.rc = 1 THEN createSeed(Reverse(read.key)) ELSE a]
  BY <1>1 DEF setSeed1751, SeedOfKey
<1> QED BY <1>2, <1>3

-------------------------------------------------------------------------------
(* The general reader.                                                     *)

LEMMA RefusedAre ==
    /\ Range(Refused) = {"accountID", "accountPublic", "accountPrivate", "nodePublic", "nodePrivate"}
    /\ Range(Refused) \subseteq Kinds
<1>1. Range(Refused) = {"accountID", "accountPublic", "accountPrivate", "nodePublic", "nodePrivate"}
  <2>1. DOMAIN Refused = {1, 2, 3, 4, 5}
    BY DEF Refused
  <2>2. /\ Refused[1] = "accountID" /\ Refused[2] = "accountPublic" /\ Refused[3] = "accountPrivate"
        /\ Refused[4] = "nodePublic" /\ Refused[5] = "nodePrivate"
    BY DEF Refused
  <2> QED BY <2>1, <2>2 DEF Range
<1> QED BY <1>1, KindsAre

\* Whether some bytes are those of an address that is refused.
LEMMA RefusedIs ==
    ASSUME NEW bytes
    PROVE  (\E i \in DOMAIN Refused : SetDecoded(bytes, VER[Refused[i]]).ok) <=>
           (\E k \in Range(Refused) : SetDecoded(bytes, VER[k]).ok)
BY DEF Range

\* A refused address.
LEMMA GenericRefuses ==
    ASSUME NEW a, NEW k \in Range(Refused), NEW d \in Seq(Byte), NEW t, Around(AsString(<<VER[k], d>>), t)
    PROVE  setSeedGeneric(a, t) = [ok |-> FALSE, b58 |-> a]
<1>1. k \in Kinds
  BY RefusedAre
<1>2. PICK v \in Byte : v = VER[k]
  BY <1>1, VersionsDiffer
<1>3. PICK bytes : bytes = DecodeBase58Check(t)
  OBVIOUS
<1>4. SetDecoded(bytes, v) = [ok |-> TRUE, b58 |-> <<v, d>>]
  <2>1. PICK version : version = v
    OBVIOUS
  <2>2. /\ SetString(t, version) = IF version = v THEN [ok |-> TRUE, b58 |-> <<v, d>>]
                                   ELSE [ok |-> FALSE, b58 |-> Cleared]
        /\ SetDecoded(DecodeBase58Check(t), version) = SetString(t, version)
    BY <1>2, AddressDecoded
  <2> QED BY <1>3, <2>1, <2>2
<1>5. SetDecoded(bytes, VER[k]).ok
  <2>1. [ok |-> TRUE, b58 |-> <<v, d>>].ok = TRUE
    OBVIOUS
  <2> QED BY <1>2, <1>4, <2>1
<1>6. \E i \in DOMAIN Refused : SetDecoded(bytes, VER[Refused[i]]).ok
  BY <1>5, RefusedIs
<1> QED BY <1>3, <1>6 DEF setSeedGeneric

\* An address that is not refused, and words.
LEMMA GenericTakes ==
    ASSUME NEW a, NEW t, t # <<>>, \A k \in Range(Refused) : ~SetDecoded(DecodeBase58Check(t), VER[k]).ok
    PROVE  setSeedGeneric(a, t) =
               SeedOrPhrase(SetDecoded(DecodeBase58Check(t), VER["seed"]), setSeed1751(Cleared, t), t)
<1>1. PICK bytes : bytes = DecodeBase58Check(t)
  OBVIOUS
<1>2. ~(\E i \in DOMAIN Refused : SetDecoded(bytes, VER[Refused[i]]).ok)
  BY <1>1, RefusedIs
<1> QED BY <1>1, <1>2 DEF setSeedGeneric

LEMMA GenericAddress ==
    ASSUME NEW a, NEW k \in Kinds, k \notin Range(Refused), NEW d \in Seq(Byte), NEW t, t # <<>>,
           Around(AsString(<<VER[k], d>>), t)
    PROVE  setSeedGeneric(a, t) = [ok |-> TRUE, b58 |-> IF k = "seed" THEN <<VER[k], d>>
                                                        ELSE createSeed(PassPhraseToKey(t))]
<1>1. PICK v \in Byte : v = VER[k]
  BY VersionsDiffer
<1>2. Around(AsString(<<v, d>>), t)
  BY <1>1
<1>3. PICK bytes : bytes = DecodeBase58Check(t)
  OBVIOUS
<1>4. ASSUME NEW l \in Kinds
      PROVE  SetDecoded(bytes, VER[l]) = IF l = k THEN [ok |-> TRUE, b58 |-> <<v, d>>]
                                         ELSE [ok |-> FALSE, b58 |-> Cleared]
  <2>1. PICK version : version = VER[l]
    OBVIOUS
  <2>2. /\ SetString(t, version) = IF version = v THEN [ok |-> TRUE, b58 |-> <<v, d>>]
                                   ELSE [ok |-> FALSE, b58 |-> Cleared]
        /\ SetDecoded(DecodeBase58Check(t), version) = SetString(t, version)
    BY <1>2, AddressDecoded
  <2>3. version = v <=> l = k
    BY <1>1, <2>1, VersionsDiffer
  <2> QED BY <1>3, <2>1, <2>2, <2>3
<1>5. ASSUME NEW l \in Range(Refused) PROVE ~SetDecoded(bytes, VER[l]).ok
  <2>1. l \in Kinds /\ l # k
    BY RefusedAre
  <2>2. SetDecoded(bytes, VER[l]) = [ok |-> FALSE, b58 |-> Cleared]
    BY <1>4, <2>1
  <2>3. [ok |-> FALSE, b58 |-> Cleared].ok = FALSE
    OBVIOUS
  <2> QED BY <2>2, <2>3
<1>6. PICK read, words : read = SetDecoded(bytes, VER["seed"]) /\ words = setSeed1751(Cleared, t)
  OBVIOUS
<1>7. setSeedGeneric(a, t) = SeedOrPhrase(read, words, t)
  BY <1>3, <1>5, <1>6, GenericTakes
<1>8. words = [rc |-> -1, b58 |-> Cleared]
  BY <1>2, <1>6, AddressWordsRead
<1>9. words.rc # 1
  BY <1>8
<1>10. "seed" \in Kinds
  BY KindsAre
<1>11. CASE k = "seed"
  <2>1. read = [ok |-> TRUE, b58 |-> <<v, d>>]
    BY <1>4, <1>6, <1>10, <1>11
  <2>2. SeedOrPhrase(read, words, t) = read
    BY <2>1 DEF SeedOrPhrase
  <2> QED BY <1>1, <1>7, <1>11, <2>1, <2>2
<1>12. CASE k # "seed"
  <2>1. read = [ok |-> FALSE, b58 |-> Cleared]
    BY <1>4, <1>6, <1>10, <1>12
  <2>2. SeedOrPhrase(read, words, t) = [ok |-> TRUE, b58 |-> createSeed(PassPhraseToKey(t))]
    BY <1>9, <2>1 DEF SeedOrPhrase
  <2> QED BY <1>7, <1>12, <2>2
<1> QED BY <1>11, <1>12

LEMMA GenericWords ==
    ASSUME NEW a, NEW d \in Sixteen, NEW t, t # <<>>, Around(key2eng(Reverse(d)), t)
    PROVE  setSeedGeneric(a, t) = [ok |-> TRUE, b58 |-> IF KeyMissed(Reverse(d))
                                                        THEN createSeed(PassPhraseToKey(t))
                                                        ELSE createSeed(d)]
<1>1. PICK bytes : bytes = DecodeBase58Check(t)
  OBVIOUS
<1>2. ASSUME NEW version PROVE SetDecoded(bytes, version) = [ok |-> FALSE, b58 |-> Cleared]
  BY <1>1, Reversed, WordsNoAddress
<1>3. [ok |-> FALSE, b58 |-> Cleared].ok = FALSE
  OBVIOUS
<1>4. \A l \in Range(Refused) : ~SetDecoded(bytes, VER[l]).ok
  BY <1>2, <1>3
<1>5. PICK read, words : read = SetDecoded(bytes, VER["seed"]) /\ words = setSeed1751(Cleared, t)
  OBVIOUS
<1>6. setSeedGeneric(a, t) = SeedOrPhrase(read, words, t)
  BY <1>1, <1>4, <1>5, GenericTakes
<1>7. ~read.ok
  BY <1>2, <1>3, <1>5
<1>8. CASE KeyMissed(Reverse(d))
  <2>1. words = [rc |-> 0, b58 |-> Cleared]
    BY <1>5, <1>8, SeedWordsRead
  <2>2. words.rc # 1
    BY <2>1
  <2>3. SeedOrPhrase(read, words, t) = [ok |-> TRUE, b58 |-> createSeed(PassPhraseToKey(t))]
    BY <1>7, <2>2 DEF SeedOrPhrase
  <2> QED BY <1>6, <1>8, <2>3
<1>9. CASE ~KeyMissed(Reverse(d))
  <2>1. words = [rc |-> 1, b58 |-> createSeed(d)]
    BY <1>5, <1>9, SeedWordsRead
  <2>2. words.rc = 1 /\ words.b58 = createSeed(d)
    BY <2>1
  <2>3. SeedOrPhrase(read, words, t) = [ok |-> TRUE, b58 |-> createSeed(d)]
    BY <1>7, <2>2 DEF SeedOrPhrase
  <2> QED BY <1>6, <1>9, <2>3
<1> QED BY <1>8, <1>9

-------------------------------------------------------------------------------
(* The word that is never found.                                           *)

Seen(t) == \E i \in DOMAIN t : t[i] = pcDict(Short - 1)

LEMMA AroundHas ==
    ASSUME NEW w \in Seq(Nat), NEW t, Around(w, t)
    PROVE  /\ t \in Seq(Nat)
           /\ \A i \in DOMAIN t : t[i] \in Spaces \/ \E j \in 1..Len(w) : t[i] = w[j]
           /\ \A j \in 1..Len(w) : \E i \in DOMAIN t : t[i] = w[j]
<1>1. PICK before \in Seq(Spaces), after \in Seq(Spaces) : t = before \o (w \o after)
  BY DEF Around
<1>2. before \in Seq(Nat) /\ after \in Seq(Nat)
  <2>1. Spaces \subseteq Nat
    BY SpaceNoDigit
  <2> QED BY <2>1, SeqMonotonic
<1>3. PICK body \in Seq(Nat) : body = w \o after
  BY <1>2, ConcatProperties
<1>4. PICK l \in Nat, m \in Nat, n \in Nat : l = Len(before) /\ m = Len(w) /\ n = Len(after)
  BY <1>2
<1>5. /\ Len(body) = m + n /\ \A j \in 1..m : body[j] = w[j]
      /\ \A j \in 1..n : body[m + j] = after[j]
  BY <1>2, <1>3, <1>4, CatIs
<1>6. /\ t \in Seq(Nat) /\ Len(t) = l + Len(body) /\ \A i \in 1..l : t[i] = before[i]
      /\ \A i \in 1..Len(body) : t[l + i] = body[i]
  BY <1>1, <1>2, <1>3, <1>4, CatIs
<1>7. Len(t) = l + (m + n)
  BY <1>5, <1>6
<1>8. ASSUME NEW j \in 1..m PROVE l + j \in 1..Len(t) /\ t[l + j] = w[j]
  <2>1. j \in 1..(m + n) /\ l + j \in 1..(l + (m + n))
    OBVIOUS
  <2>2. t[l + j] = body[j]
    BY <1>5, <1>6, <2>1
  <2> QED BY <1>5, <1>7, <2>1, <2>2
<1>9. ASSUME NEW i \in 1..Len(t) PROVE t[i] \in Spaces \/ \E j \in 1..m : t[i] = w[j]
  <2>1. i \in 1..(l + (m + n))
    BY <1>7
  <2>2. CASE i <= l
    <3>1. i \in 1..l
      BY <2>1, <2>2
    <3>2. before[i] \in Spaces
      BY <1>4, <3>1, ElementOfSeq
    <3> QED BY <1>6, <3>1, <3>2
  <2>3. CASE l < i /\ i <= l + m
    <3>1. PICK j \in 1..m : l + j = i
      <4>1. i - l \in 1..m /\ l + (i - l) = i
        BY <2>1, <2>3
      <4> QED BY <4>1
    <3> QED BY <1>8, <3>1
  <2>4. CASE l + m < i
    <3>1. PICK j \in 1..n : l + (m + j) = i /\ m + j \in 1..(m + n)
      <4>1. i - (l + m) \in 1..n /\ l + (m + (i - (l + m))) = i /\ m + (i - (l + m)) \in 1..(m + n)
        BY <2>1, <2>4
      <4> QED BY <4>1
    <3>2. t[i] = after[j]
      BY <1>5, <1>6, <3>1
    <3>3. after[j] \in Spaces
      BY <1>4, ElementOfSeq
    <3> QED BY <3>2, <3>3
  <2>5. i <= l \/ (l < i /\ i <= l + m) \/ l + m < i
    BY <2>1
  <2> QED BY <2>2, <2>3, <2>4, <2>5
<1>10. DOMAIN t = 1..Len(t)
  BY <1>6
<1> QED BY <1>4, <1>6, <1>8, <1>9, <1>10

LEMMA LastShortIs ==
    /\ pcDict(Short - 1) = pcDict(LastShort) /\ LastShort \in WordNumbers
    /\ pcDict(Short - 1) \notin Spaces /\ pcDict(Short - 1) \notin Digit
<1>1. Short - 1 = LastShort
  BY DEF Short, LastShort
<1>2. LastShort \in WordNumbers
  BY DEF LastShort, WordNumbers
<1>3. PICK c \in Nat : c = pcDict(LastShort) /\ c >= 1000
  BY <1>2, WordIs
<1>4. \A x \in Nat : x >= 1000 => x # 58 /\ x # 59 /\ x # 60 /\ x \notin 0..57
  OBVIOUS
<1>5. c # 58 /\ c # 59 /\ c # 60 /\ c \notin 0..57
  BY <1>3, <1>4
<1>6. c \notin Spaces
  BY <1>5 DEF Spaces, Space, NewLine, CarriageReturn
<1>7. c \notin Digit
  BY <1>5 DEF Digit
<1> QED BY <1>1, <1>2, <1>3, <1>6, <1>7

LEMMA AddressNotSeen ==
    ASSUME NEW v \in Byte, NEW d \in Seq(Byte), NEW t, Around(AsString(<<v, d>>), t)
    PROVE  ~Seen(t)
<1>1. PICK w \in Seq(Nat) : w = AsString(<<v, d>>) /\ AllIn(w, Digit)
  BY AddressPiece
<1>2. \A i \in DOMAIN t : t[i] \in Spaces \/ \E j \in 1..Len(w) : t[i] = w[j]
  BY SMTT(40), <1>1, AroundHas
<1>3. \A i \in DOMAIN t : t[i] \in Spaces \/ t[i] \in Digit
  BY <1>1, <1>2 DEF AllIn
<1> QED BY <1>3, LastShortIs DEF Seen

\* Words are not read exactly when that word is among them.
LEMMA WordsSeen ==
    ASSUME NEW bytes \in Sixteen, NEW t, Around(key2eng(bytes), t)
    PROVE  t \in Seq(Nat) /\ (Seen(t) <=> KeyMissed(bytes))
<1>1. PICK w : w = key2eng(bytes) /\ Spaced(w, 12)
  BY KeyTextIs
<1>2. PICK b1 \in Bits66, b2 \in Bits66 : b1 = BitsOfHalf(bytes, 1) /\ b2 = BitsOfHalf(bytes, 2)
  <2>1. 1 \in 1..2 /\ 2 \in 1..2
    OBVIOUS
  <2> QED BY <2>1, HalfBits
<1>3. \A k \in 1..6 : /\ w[(2 * k) - 1] = pcDict(NumberAt(b1, k))
                      /\ w[(2 * (6 + k)) - 1] = pcDict(NumberAt(b2, k))
  BY <1>1, <1>2, KeyTextIs
<1>4. w \in Seq(Nat) /\ Len(w) = 23 /\ \A k \in 1..11 : w[2 * k] = Space
  <2>1. (2 * 12) - 1 = 23 /\ 12 - 1 = 11
    OBVIOUS
  <2> QED BY <1>1, <2>1 DEF Spaced
<1>5. w \in Seq(Nat)
  BY <1>4
<1>6. /\ t \in Seq(Nat)
      /\ \A i \in DOMAIN t : t[i] \in Spaces \/ \E j \in 1..Len(w) : t[i] = w[j]
      /\ \A j \in 1..Len(w) : \E i \in DOMAIN t : t[i] = w[j]
  <2>1. Around(w, t)
    BY <1>1
  <2> QED BY <1>5, <2>1, AroundHas
<1>7. PICK c : c = pcDict(LastShort) /\ c = pcDict(Short - 1) /\ c \notin Spaces
  BY LastShortIs
<1>8. KeyMissed(bytes) <=> Missed(b1) \/ Missed(b2)
  <2>1. \A h \in 1..2 : h = 1 \/ h = 2
    OBVIOUS
  <2>2. 1 \in 1..2 /\ 2 \in 1..2
    OBVIOUS
  <2> QED BY <1>2, <2>1, <2>2 DEF KeyMissed
<1>9. ASSUME NEW b \in Bits66, NEW k \in 1..6
      PROVE  pcDict(NumberAt(b, k)) = c <=> NumberAt(b, k) = LastShort
  <2>1. PICK m \in WordNumbers, l \in WordNumbers : m = NumberAt(b, k) /\ l = LastShort
    BY NumbersBack, LastShortIs
  <2>2. Rank(pcDict(m)) = 2 * m /\ Rank(pcDict(l)) = 2 * l
    BY WordIs
  <2>3. m \in Nat /\ l \in Nat
    BY DEF WordNumbers
  <2>4. 2 * m = 2 * l => m = l
    BY <2>3
  <2> QED BY <1>7, <2>1, <2>2, <2>4
<1>10. ASSUME KeyMissed(bytes) PROVE Seen(t)
  <2>1. CASE Missed(b1)
    <3>1. PICK k \in 1..6 : NumberAt(b1, k) = LastShort
      BY <2>1 DEF Missed
    <3>2. (2 * k) - 1 \in 1..Len(w)
      BY <1>4
    <3>3. w[(2 * k) - 1] = c
      BY <1>3, <1>9, <3>1
    <3> QED BY <1>6, <1>7, <3>2, <3>3 DEF Seen
  <2>2. CASE Missed(b2)
    <3>1. PICK k \in 1..6 : NumberAt(b2, k) = LastShort
      BY <2>2 DEF Missed
    <3>2. (2 * (6 + k)) - 1 \in 1..Len(w)
      BY <1>4
    <3>3. w[(2 * (6 + k)) - 1] = c
      BY <1>3, <1>9, <3>1
    <3> QED BY <1>6, <1>7, <3>2, <3>3 DEF Seen
  <2> QED BY <1>8, <1>10, <2>1, <2>2
<1>11. ASSUME Seen(t) PROVE KeyMissed(bytes)
  <2>1. PICK i \in DOMAIN t : t[i] = c
    BY <1>7, <1>11 DEF Seen
  <2>2. PICK j \in 1..Len(w) : w[j] = c
    BY <1>6, <1>7, <2>1
  <2>3. j \in 1..23
    BY <1>4
  <2>4. PICK q, r : q = j \div 2 /\ r = j % 2
    OBVIOUS
  <2>5. j = 2 * q + r /\ r \in 0..1 /\ q \in 0..11
    BY <2>3, <2>4
  <2>6. CASE r = 0
    <3>1. q \in 1..11 /\ j = 2 * q
      BY <2>3, <2>5, <2>6
    <3>2. Space \in Spaces
      BY DEF Spaces
    <3> QED BY <1>4, <1>7, <2>2, <3>1, <3>2
  <2>7. CASE r = 1 /\ q <= 5
    <3>1. PICK k \in 1..6 : j = (2 * k) - 1
      <4>1. q + 1 \in 1..6 /\ j = (2 * (q + 1)) - 1
        BY <2>5, <2>7
      <4> QED BY <4>1
    <3>2. pcDict(NumberAt(b1, k)) = c
      BY <1>3, <2>2, <3>1
    <3>3. NumberAt(b1, k) = LastShort
      BY <1>9, <3>2
    <3> QED BY <1>8, <3>3 DEF Missed
  <2>8. CASE r = 1 /\ q > 5
    <3>1. PICK k \in 1..6 : j = (2 * (6 + k)) - 1
      <4>1. q - 5 \in 1..6 /\ j = (2 * (6 + (q - 5))) - 1
        BY <2>5, <2>8
      <4> QED BY <4>1
    <3>2. pcDict(NumberAt(b2, k)) = c
      BY <1>3, <2>2, <3>1
    <3>3. NumberAt(b2, k) = LastShort
      BY <1>9, <3>2
    <3> QED BY <1>8, <3>3 DEF Missed
  <2>9. r = 0 \/ (r = 1 /\ q <= 5) \/ (r = 1 /\ q > 5)
    BY <2>5
  <2> QED BY <2>6, <2>7, <2>8, <2>9
<1> QED BY <1>6, <1>10, <1>11

-------------------------------------------------------------------------------
(* The addresses that are made.                                            *)

\* An object with the contents of its kind.
Address(a) ==
    \E k \in Kinds : /\ a = <<VER[k], a[2]>> /\ a[2] \in Seq(Byte) /\ a[2] # <<>>
                     /\ k = "seed" => Len(a[2]) = 16

LEMMA AddressIs ==
    ASSUME NEW k \in Kinds, NEW d \in Seq(Byte), d # <<>>, k = "seed" => Len(d) = 16
    PROVE  Address(<<VER[k], d>>)
<1>1. PICK a : a = <<VER[k], d>>
  OBVIOUS
<1>2. a[2] = d
  BY <1>1, PairHas
<1>3. /\ a = <<VER[k], a[2]>> /\ a[2] \in Seq(Byte) /\ a[2] # <<>>
      /\ k = "seed" => Len(a[2]) = 16
  BY <1>1, <1>2
<1> QED BY <1>1, <1>3 DEF Address

\* Two keys without their common first byte.
LEMMA Prefixed ==
    ASSUME NEW b \in Byte, NEW x \in Seq(Byte)
    PROVE  /\ <<b>> \o x \in Seq(Byte) /\ <<b>> \o x # <<>> /\ Tail(<<b>> \o x) = x
           /\ \A y \in Seq(Byte) : <<b>> \o x = <<b>> \o y => x = y
<1>1. PICK h \in Seq(Byte) : h = <<b>> /\ Len(h) = 1 /\ h[1] = b
  BY OneIs
<1>2. ASSUME NEW z \in Seq(Byte)
      PROVE  h \o z \in Seq(Byte) /\ h \o z # <<>> /\ Tail(h \o z) = z
  <2>1. h \in Seq(Byte)
    BY <1>1
  <2>2. /\ h \o z \in Seq(Byte) /\ Len(h \o z) = Len(h) + Len(z)
        /\ \A i \in 1..Len(z) : (h \o z)[Len(h) + i] = z[i]
    BY <2>1, CatIs
  <2>3. PICK u \in Seq(Byte) : u = h \o z /\ Len(u) = Len(h) + Len(z)
                               /\ \A i \in 1..Len(z) : u[Len(h) + i] = z[i]
    BY <2>2
  <2>4. PICK n \in Nat : n = Len(z)
    OBVIOUS
  <2>5. Len(u) = 1 + n /\ 1 + n # 0 /\ (1 + n) - 1 = n
    BY <1>1, <2>3, <2>4
  <2>6. u # <<>>
    BY <2>5
  <2>7. /\ Tail(u) \in Seq(Byte) /\ Len(Tail(u)) = Len(u) - 1
        /\ \A i \in 1..Len(Tail(u)) : Tail(u)[i] = u[i + 1]
    BY <2>6, HeadTailProperties
  <2>8. Len(Tail(u)) = n
    BY <2>5, <2>7
  <2>9. \A i \in 1..n : i + 1 = 1 + i
    OBVIOUS
  <2>10. \A i \in 1..n : Tail(u)[i] = z[i]
    BY <1>1, <2>3, <2>4, <2>7, <2>8, <2>9
  <2>11. Tail(u) = z
    BY <2>4, <2>7, <2>8, <2>10, SeqEqual
  <2> QED BY <2>3, <2>6, <2>11
<1>3. \A y \in Seq(Byte) : h \o x = h \o y => x = y
  BY <1>2
<1> QED BY <1>1, <1>2, <1>3

\* The private keys of a seed, and their public parts.
LEMMA RootIs ==
    ASSUME NEW s \in Seq(Byte)
    PROVE  RootPrivate(s) \in Seq(Byte) /\ RootPrivate(s) # <<>>
<1>1. 1 \in Byte
  BY DEF Byte
<1> QED BY <1>1, Prefixed DEF RootPrivate

LEMMA PublicIs ==
    ASSUME NEW x \in Seq(Byte)
    PROVE  /\ PublicOf(x) \in Seq(Byte) /\ PublicOf(x) # <<>> /\ Tail(PublicOf(x)) = x
           /\ \A y \in Seq(Byte) : PublicOf(x) = PublicOf(y) => x = y
<1>1. 2 \in Byte
  BY DEF Byte
<1> QED BY <1>1, Prefixed DEF PublicOf

LEMMA FamilyIs ==
    ASSUME NEW x \in Seq(Byte), NEW n \in Byte
    PROVE  /\ FamilyPrivate(x, n) \in Seq(Byte) /\ FamilyPrivate(x, n) # <<>>
           /\ FamilyPublic(PublicOf(x), n) = PublicOf(FamilyPrivate(x, n))
<1>1. PICK h : h = <<3, n>>
  OBVIOUS
<1>2. h \in Seq(Byte) /\ Len(h) = 2
  BY <1>1 DEF Byte
<1>3. h \in Seq(Byte)
  BY <1>2
<1>4. h \o x \in Seq(Byte) /\ Len(h \o x) = Len(h) + Len(x)
  BY <1>3, CatIs
<1>5. h \o x # <<>>
  <2>1. PICK l \in Nat : l = Len(x)
    OBVIOUS
  <2>2. 2 + l # 0
    OBVIOUS
  <2> QED BY <1>2, <1>4, <2>1, <2>2
<1>6. FamilyPrivate(x, n) = h \o x
  BY <1>1 DEF FamilyPrivate
<1>7. FamilyPublic(PublicOf(x), n) = PublicOf(FamilyPrivate(x, n))
  BY PublicIs DEF FamilyPublic
<1> QED BY <1>4, <1>5, <1>6, <1>7

LEMMA HashIs ==
    ASSUME NEW x \in Seq(Byte)
    PROVE  Hash160(x) \in Seq(Byte) /\ Hash160(x) # <<>> /\ Hash160(x) # ThrowsError
<1>1. PICK c \in Seq(Byte) : c = Check(x) /\ Len(c) = 4
  BY CheckType
<1>2. PICK h \in Seq(Byte) : h = <<4>> /\ Len(h) = 1
  <2>1. 4 \in Byte
    BY DEF Byte
  <2> QED BY <2>1, OneIs
<1>3. PICK u \in Seq(Byte) : u = h \o c /\ Len(u) = Len(h) + Len(c)
  BY CatIs
<1>4. Len(u) = 5
  BY <1>1, <1>2, <1>3
<1>5. Len(ThrowsError) = 1 /\ Len(<<>>) = 0
  BY DEF ThrowsError, NotDecoded
<1>6. PICK n \in Nat : n = Len(u) /\ n # 0 /\ n # 1
  BY <1>4
<1>7. u # <<>> /\ u # ThrowsError
  BY <1>5, <1>6
<1>8. Hash160(x) = u
  BY <1>1, <1>2, <1>3 DEF Hash160
<1> QED BY <1>7, <1>8

\* The bytes of a seed, and what its object gives.
LEMMA SeedIs ==
    ASSUME NEW s \in SeedBytes
    PROVE  /\ s \in Seq(Byte) /\ Len(s) = 16 /\ s # <<>>
           /\ getSeed(createSeed(s)) = s
           /\ getGenerator(createGeneratorPublic(createSeed(s))) = PublicOf(RootPrivate(s))
<1>1. s \in Seq(Byte) /\ Len(s) = 16
  BY SiteFileAssumption
<1>2. s # <<>>
  <2>1. Len(<<>>) = 0 /\ 16 # 0
    OBVIOUS
  <2> QED BY <1>1, <2>1
<1>3. getSeed(createSeed(s)) = s
  BY PairHas DEF getSeed, createSeed, BytesOf, Is, SetData
<1>4. getGenerator(createGeneratorPublic(createSeed(s))) = PublicOf(RootPrivate(s))
  BY <1>3, PairHas DEF getGenerator, createGeneratorPublic, BytesOf, Is, SetData
<1> QED BY <1>1, <1>2, <1>3, <1>4

\* What is made of a seed.
LEMMA MadeAre ==
    ASSUME NEW s \in SeedBytes
    PROVE  /\ createSeed(s) = <<VER["seed"], s>>
           /\ createGeneratorPublic(createSeed(s)) = <<VER["generator"], PublicOf(RootPrivate(s))>>
           /\ createNodePublic(createSeed(s)) = <<VER["nodePublic"], PublicOf(RootPrivate(s))>>
           /\ createNodePrivate(createSeed(s)) = <<VER["nodePrivate"], RootPrivate(s)>>
           /\ RootPrivate(s) \in Seq(Byte)
<1>1. s \in Seq(Byte) /\ getSeed(createSeed(s)) = s
  BY SeedIs
<1>2. RootPrivate(s) \in Seq(Byte)
  BY <1>1, RootIs
<1>3. createSeed(s) = <<VER["seed"], s>>
  BY DEF createSeed, SetData
<1>4. createGeneratorPublic(createSeed(s)) = <<VER["generator"], PublicOf(RootPrivate(s))>>
  BY <1>1 DEF createGeneratorPublic, SetData
<1>5. createNodePublic(createSeed(s)) = <<VER["nodePublic"], PublicOf(RootPrivate(s))>>
  BY <1>1 DEF createNodePublic, SetData
<1>6. createNodePrivate(createSeed(s)) = <<VER["nodePrivate"], RootPrivate(s)>>
  BY <1>1 DEF createNodePrivate, SetData
<1> QED BY <1>2, <1>3, <1>4, <1>5, <1>6

LEMMA AccountsAre ==
    ASSUME NEW s \in SeedBytes, NEW n \in Seqs
    PROVE  /\ createAccountPublic(createGeneratorPublic(createSeed(s)), n) =
                  <<VER["accountPublic"], PublicOf(FamilyPrivate(RootPrivate(s), n))>>
           /\ createAccountPrivate(createGeneratorPublic(createSeed(s)), createSeed(s), n) =
                  <<VER["accountPrivate"], FamilyPrivate(RootPrivate(s), n)>>
           /\ FamilyPrivate(RootPrivate(s), n) \in Seq(Byte) /\ FamilyPrivate(RootPrivate(s), n) # <<>>
<1>1. getSeed(createSeed(s)) = s /\ RootPrivate(s) \in Seq(Byte)
      /\ getGenerator(createGeneratorPublic(createSeed(s))) = PublicOf(RootPrivate(s))
  BY SeedIs, MadeAre
<1>2. PICK x \in Seq(Byte) : x = RootPrivate(s)
  BY <1>1
<1>3. n \in Byte
  BY SiteFileAssumption
<1>4. /\ FamilyPrivate(x, n) \in Seq(Byte) /\ FamilyPrivate(x, n) # <<>>
      /\ FamilyPublic(PublicOf(x), n) = PublicOf(FamilyPrivate(x, n))
  BY <1>3, FamilyIs
<1>5. createAccountPublic(createGeneratorPublic(createSeed(s)), n) =
          <<VER["accountPublic"], PublicOf(FamilyPrivate(RootPrivate(s), n))>>
  BY <1>1, <1>2, <1>4 DEF createAccountPublic, SetData
<1>6. createAccountPrivate(createGeneratorPublic(createSeed(s)), createSeed(s), n) =
           <<VER["accountPrivate"], FamilyPrivate(RootPrivate(s), n)>>
  BY <1>1 DEF createAccountPrivate, SetData
<1> QED BY <1>2, <1>4, <1>5, <1>6

\* Everything that is made is an address.
LEMMA MadeAddress ==
    ASSUME NEW s \in SeedBytes, NEW a \in Made(s)
    PROVE  Address(a)
<1>1. s \in Seq(Byte) /\ Len(s) = 16 /\ s # <<>>
  BY SeedIs
<1>2. PICK x \in Seq(Byte) : x = RootPrivate(s) /\ x # <<>>
  BY <1>1, RootIs
<1>3. PICK y \in Seq(Byte) : y = PublicOf(x) /\ y # <<>>
  BY PublicIs
<1>4. a \in {createSeed(s), createGeneratorPublic(createSeed(s)), createNodePublic(createSeed(s)),
              createNodePrivate(createSeed(s))}
      \/ \E n \in Seqs :
            \/ a = createAccountPublic(createGeneratorPublic(createSeed(s)), n)
            \/ a = createAccountPrivate(createGeneratorPublic(createSeed(s)), createSeed(s), n)
            \/ a = createAccountID(getAccountID(createAccountPublic(createGeneratorPublic(createSeed(s)), n)))
  BY DEF Made
<1>5. CASE a = createSeed(s)
  <2>1. a = <<VER["seed"], s>> /\ "seed" \in Kinds
    BY <1>5, MadeAre, KindsAre
  <2> QED BY <1>1, <2>1, AddressIs
<1>6. ASSUME NEW k \in {"generator", "nodePublic"}, a = <<VER[k], y>>
      PROVE  Address(a)
  <2>1. k \in Kinds /\ k # "seed"
    BY KindsAre
  <2> QED BY <1>3, <1>6, <2>1, AddressIs
<1>7. CASE a = createNodePrivate(createSeed(s))
  <2>1. a = <<VER["nodePrivate"], x>> /\ "nodePrivate" \in Kinds
    BY <1>2, <1>7, MadeAre, KindsAre
  <2> QED BY <1>2, <2>1, AddressIs
<1>8. CASE a = createGeneratorPublic(createSeed(s)) \/ a = createNodePublic(createSeed(s))
  BY <1>2, <1>3, <1>6, <1>8, MadeAre
<1>9. ASSUME NEW n \in Seqs,
            \/ a = createAccountPublic(createGeneratorPublic(createSeed(s)), n)
            \/ a = createAccountPrivate(createGeneratorPublic(createSeed(s)), createSeed(s), n)
            \/ a = createAccountID(getAccountID(createAccountPublic(createGeneratorPublic(createSeed(s)), n)))
      PROVE Address(a)
  <2>1. PICK f \in Seq(Byte) : f = FamilyPrivate(RootPrivate(s), n) /\ f # <<>>
    BY AccountsAre
  <2>2. PICK p \in Seq(Byte) : p = PublicOf(f) /\ p # <<>>
    BY PublicIs
  <2>3. PICK h \in Seq(Byte) : h = Hash160(p) /\ h # <<>>
    BY HashIs
  <2>4. PICK c : c = createAccountPublic(createGeneratorPublic(createSeed(s)), n)
    OBVIOUS
  <2>5. c = <<VER["accountPublic"], p>>
    BY <2>1, <2>2, <2>4, AccountsAre
  <2>6. c[1] = VER["accountPublic"] /\ c[2] = p
    BY <2>5, PairHas
  <2>7. getAccountID(c) = h
    BY <2>3, <2>6 DEF getAccountID, Is
  <2>8. createAccountID(getAccountID(c)) = <<VER["accountID"], h>>
    BY <2>7 DEF createAccountID, SetData
  <2>9. /\ "accountPublic" \in Kinds /\ "accountPrivate" \in Kinds /\ "accountID" \in Kinds
        /\ "accountPublic" # "seed" /\ "accountPrivate" # "seed" /\ "accountID" # "seed"
    BY KindsAre
  <2>10. CASE a = c
    BY <2>2, <2>5, <2>9, <2>10, AddressIs
  <2>11. CASE a = createAccountPrivate(createGeneratorPublic(createSeed(s)), createSeed(s), n)
    <3>1. a = <<VER["accountPrivate"], f>>
      BY <2>1, <2>11, AccountsAre
    <3> QED BY <2>1, <2>9, <3>1, AddressIs
  <2>12. CASE a = createAccountID(getAccountID(c))
    BY <2>3, <2>8, <2>9, <2>12, AddressIs
  <2> QED BY <1>9, <2>4, <2>10, <2>11, <2>12
<1> QED BY <1>4, <1>5, <1>7, <1>8, <1>9

\* An address signs for the public keys that were made with it, and for no
\* others.
LEMMA OwnSignature ==
    ASSUME NEW d \in Seq(Byte), NEW x \in Seq(Byte), NEW v
    PROVE  Verify(PublicOf(x), 7, Signature(d, 7)) <=> <<v, d>> = <<v, x>>
<1>1. Signature(d, 7)[1] = d /\ Signature(d, 7)[2] = 7
  BY PairHas DEF Signature
<1>2. Verify(PublicOf(x), 7, Signature(d, 7)) <=> PublicOf(x) = PublicOf(d)
  BY <1>1 DEF Verify
<1>3. PublicOf(x) = PublicOf(d) <=> x = d
  BY PublicIs
<1>4. <<v, d>> = <<v, x>> <=> d = x
  BY PairHas
<1> QED BY <1>2, <1>3, <1>4

LEMMA AddressSigns ==
    ASSUME NEW k \in Kinds, NEW d \in Seq(Byte)
    PROVE  SignsForItsOwn(<<VER[k], d>>)
<1>1. PICK a : a = <<VER[k], d>> /\ a[1] = VER[k] /\ a[2] = d
  BY ZenonT(40), PairHas
<1>2. ASSUME NEW s \in SeedBytes, Is(a, "nodePrivate")
      PROVE  verifyNodePublic(createNodePublic(createSeed(s)), 7, signNodePrivate(a, 7))
                 <=> a = createNodePrivate(createSeed(s))
  <2>1. PICK x \in Seq(Byte) : x = RootPrivate(s)
    BY MadeAre
  <2>2. PICK b : b = createNodePublic(createSeed(s))
    OBVIOUS
  <2>3. b = <<VER["nodePublic"], PublicOf(x)>>
    BY <2>1, <2>2, MadeAre
  <2>4. b[1] = VER["nodePublic"] /\ b[2] = PublicOf(x)
    BY <2>3, PairHas
  <2>5. getNodePublic(b) = PublicOf(x)
    BY <2>4 DEF getNodePublic, BytesOf, Is
  <2>6. getNodePrivate(a) = d /\ a = <<VER["nodePrivate"], d>>
    BY <1>1, <1>2 DEF getNodePrivate, BytesOf, Is
  <2>7. createNodePrivate(createSeed(s)) = <<VER["nodePrivate"], x>>
    BY <2>1, MadeAre
  <2>8. Verify(PublicOf(x), 7, Signature(d, 7)) <=> <<VER["nodePrivate"], d>> = <<VER["nodePrivate"], x>>
    BY OwnSignature
  <2>9. verifyNodePublic(b, 7, signNodePrivate(a, 7)) <=> Verify(PublicOf(x), 7, Signature(d, 7))
    BY <2>5, <2>6 DEF verifyNodePublic, signNodePrivate
  <2> QED BY <2>2, <2>6, <2>7, <2>8, <2>9
<1>3. ASSUME NEW s \in SeedBytes, NEW n \in Seqs, Is(a, "accountPrivate")
      PROVE  accountPublicVerify(createAccountPublic(createGeneratorPublic(createSeed(s)), n), 7,
                                 accountPrivateSign(a, 7))
                 <=> a = createAccountPrivate(createGeneratorPublic(createSeed(s)), createSeed(s), n)
  <2>1. PICK x \in Seq(Byte) : x = FamilyPrivate(RootPrivate(s), n)
    BY AccountsAre
  <2>2. PICK b : b = createAccountPublic(createGeneratorPublic(createSeed(s)), n)
    OBVIOUS
  <2>3. b = <<VER["accountPublic"], PublicOf(x)>>
    BY <2>1, <2>2, AccountsAre
  <2>4. b[1] = VER["accountPublic"] /\ b[2] = PublicOf(x)
    BY <2>3, PairHas
  <2>5. getAccountPublic(b) = PublicOf(x)
    BY <2>4 DEF getAccountPublic, BytesOf, Is
  <2>6. getAccountPrivate(a) = d /\ a = <<VER["accountPrivate"], d>>
    BY <1>1, <1>3 DEF getAccountPrivate, BytesOf, Is
  <2>7. createAccountPrivate(createGeneratorPublic(createSeed(s)), createSeed(s), n) =
            <<VER["accountPrivate"], x>>
    BY <2>1, AccountsAre
  <2>8. Verify(PublicOf(x), 7, Signature(d, 7)) <=> <<VER["accountPrivate"], d>> = <<VER["accountPrivate"], x>>
    BY OwnSignature
  <2>9. accountPublicVerify(b, 7, accountPrivateSign(a, 7)) <=> Verify(PublicOf(x), 7, Signature(d, 7))
    BY <2>5, <2>6 DEF accountPublicVerify, accountPrivateSign
  <2> QED BY <2>2, <2>6, <2>7, <2>8, <2>9
<1>4. SignsForItsOwn(a)
  BY <1>2, <1>3 DEF SignsForItsOwn
<1> QED BY <1>1, <1>4

-------------------------------------------------------------------------------
(* The invariant of the site.                                              *)

\* The text of an address in one of the forms in which it is written, and the
\* forms that an address has.
WrittenAs(a, f) == IF f = "words" THEN key2eng(Reverse(a[2])) ELSE AsString(a)

Fits(a, f) == IF f = "words" THEN Is(a, "seed") ELSE f \in Kinds /\ Is(a, f)

\* Until a text is read, the object is empty or an address.
ObjectInv == result = NoResult => na = Cleared \/ Address(na)

\* The text that is kept is the one that was written.
OriginInv ==
    origin # Cleared =>
        /\ Address(origin) /\ Fits(origin, form)
        /\ touched = "no" => text = WrittenAs(origin, form)
        /\ touched = "padded" => text = <<Space>> \o WrittenAs(origin, form) \o <<Space>>

\* Nothing is done to a text before there is one, and one that nobody touched
\* was written.
TextInv ==
    /\ touched = "padded" \/ result # NoResult => text # <<>>
    /\ touched = "no" /\ text # <<>> => origin # Cleared

SiteInv == ObjectInv /\ OriginInv /\ TextInv /\ TextsReadBack

\* An address as its kind and its bytes.
LEMMA AddressParts ==
    ASSUME NEW a, Address(a)
    PROVE  \E k \in Kinds, d \in Seq(Byte) :
               /\ a = <<VER[k], d>> /\ a[1] = VER[k] /\ a[2] = d /\ d # <<>>
               /\ k = "seed" => d \in Sixteen
               /\ \A l \in Kinds : Is(a, l) <=> l = k
<1>1. PICK k \in Kinds : /\ a = <<VER[k], a[2]>> /\ a[2] \in Seq(Byte) /\ a[2] # <<>>
                         /\ k = "seed" => Len(a[2]) = 16
  BY DEF Address
<1>2. PICK d \in Seq(Byte) : d = a[2]
  BY <1>1
<1>3. a[1] = VER[k]
  BY <1>1, PairHas
<1>4. \A l \in Kinds : Is(a, l) <=> l = k
  BY <1>3, VersionsDiffer DEF Is
<1>5. k = "seed" => d \in Sixteen
  BY <1>1, <1>2 DEF Sixteen
<1> QED BY <1>1, <1>2, <1>3, <1>4, <1>5

LEMMA ClearedNone ==
    ASSUME NEW kind \in Kinds \cup {"words"}
    PROVE  humanOf(Cleared)[kind] = ThrowsError
<1>1. \A k \in Kinds : ~Is(Cleared, k)
  <2>1. Cleared[1] = 1
    BY PairHas DEF Cleared
  <2> QED BY <2>1, VersionsDiffer DEF Is
<1>2. "accountPublic" \in Kinds /\ "accountID" \in Kinds /\ "seed" \in Kinds
  BY KindsAre
<1>3. getAccountID(Cleared) = ThrowsError
  BY <1>1, <1>2 DEF getAccountID, BytesOf
<1>4. CASE kind = "words"
  <2>1. humanOf(Cleared)["words"] = humanSeed1751(Cleared)
    BY DEF humanOf
  <2> QED BY <1>1, <1>2, <1>4, <2>1 DEF humanSeed1751
<1>5. CASE kind \in Kinds
  <2>1. humanOf(Cleared)[kind] = IF kind = "accountID" THEN humanAccountID(Cleared) ELSE Human(Cleared, kind)
    BY <1>5, humanOfIs
  <2>2. humanAccountID(Cleared) = ThrowsError
    BY <1>3 DEF humanAccountID
  <2>3. Human(Cleared, kind) = ThrowsError
    BY <1>1, <1>5 DEF Human
  <2> QED BY <2>1, <2>2, <2>3
<1> QED BY <1>4, <1>5

\* The number of an account, from its public key or from itself.
LEMMA AccountOf ==
    ASSUME NEW a, Address(a), getAccountID(a) # ThrowsError
    PROVE  Address(createAccountID(getAccountID(a))) /\ Is(createAccountID(getAccountID(a)), "accountID")
<1>1. PICK k \in Kinds, d \in Seq(Byte) : /\ a[2] = d /\ d # <<>> /\ \A l \in Kinds : Is(a, l) <=> l = k
  BY AddressParts
<1>2. "accountPublic" \in Kinds /\ "accountID" \in Kinds /\ "accountID" # "seed"
  BY KindsAre
<1>3. PICK h \in Seq(Byte) : h = getAccountID(a) /\ h # <<>>
  <2>1. CASE Is(a, "accountPublic")
    <3>1. getAccountID(a) = Hash160(d)
      BY <1>1, <2>1 DEF getAccountID
    <3> QED BY <3>1, HashIs
  <2>2. CASE ~Is(a, "accountPublic")
    <3>1. getAccountID(a) = d
      BY <1>1, <2>2 DEF getAccountID, BytesOf
    <3> QED BY <1>1, <3>1
  <2> QED BY <2>1, <2>2
<1>4. createAccountID(getAccountID(a)) = <<VER["accountID"], h>>
  BY <1>3 DEF createAccountID, SetData
<1>5. Is(createAccountID(getAccountID(a)), "accountID")
  BY <1>4, PairHas DEF Is
<1> QED BY <1>2, <1>3, <1>4, <1>5, AddressIs

\* What WriteText notes is an address, in a form that it has, and the text is
\* its text in that form.
LEMMA WroteIs ==
    ASSUME NEW a, Address(a), NEW kind \in Kinds \cup {"words"}, humanOf(a)[kind] # ThrowsError,
           NEW o, o = IF kind = "accountID" THEN createAccountID(getAccountID(a)) ELSE a
    PROVE  Address(o) /\ Fits(o, kind) /\ humanOf(a)[kind] = WrittenAs(o, kind)
<1>1. "words" \notin Kinds /\ "accountID" \in Kinds /\ "accountID" # "words"
  BY KindsAre
<1>2. CASE kind = "words"
  <2>1. humanOf(a)["words"] = humanSeed1751(a)
    BY DEF humanOf
  <2>2. Is(a, "seed") /\ humanSeed1751(a) = key2eng(Reverse(getSeed(a)))
    BY <1>2, <2>1 DEF humanSeed1751
  <2>3. getSeed(a) = a[2]
    BY <2>2 DEF getSeed, BytesOf
  <2> QED BY <1>1, <1>2, <2>1, <2>2, <2>3 DEF Fits, WrittenAs
<1>3. CASE kind = "accountID"
  <2>1. humanOf(a)[kind] = humanAccountID(a)
    BY <1>1, <1>3, humanOfIs
  <2>2. getAccountID(a) # ThrowsError
    BY <2>1 DEF humanAccountID
  <2>3. humanAccountID(a) = AsString(createAccountID(getAccountID(a)))
    BY <2>2 DEF humanAccountID, createAccountID
  <2>4. Address(o) /\ Is(o, "accountID")
    BY <1>3, <2>2, AccountOf
  <2> QED BY <1>1, <1>3, <2>1, <2>3, <2>4 DEF Fits, WrittenAs
<1>4. CASE kind \in Kinds /\ kind # "accountID"
  <2>1. humanOf(a)[kind] = Human(a, kind)
    BY <1>4, humanOfIs
  <2>2. Is(a, kind) /\ Human(a, kind) = AsString(a)
    BY <2>1 DEF Human
  <2> QED BY <1>1, <1>4, <2>1, <2>2 DEF Fits, WrittenAs
<1> QED BY <1>2, <1>3, <1>4

LEMMA AddressNotCleared ==
    ASSUME NEW a, Address(a)
    PROVE  a # Cleared
<1>1. PICK k \in Kinds : a[1] = VER[k]
  BY AddressParts
<1>2. Cleared[1] = 1
  BY PairHas DEF Cleared
<1> QED BY <1>1, <1>2, VersionsDiffer

LEMMA WrittenType ==
    ASSUME NEW a, NEW f, Address(a), Fits(a, f)
    PROVE  WrittenAs(a, f) \in Seq(Nat)
<1>1. PICK k \in Kinds, d \in Seq(Byte) :
               /\ a = <<VER[k], d>> /\ a[2] = d /\ (k = "seed" => d \in Sixteen)
               /\ \A l \in Kinds : Is(a, l) <=> l = k
  BY AddressParts
<1>2. CASE f = "words"
  <2>1. k = "seed" /\ WrittenAs(a, f) = key2eng(Reverse(d))
    BY <1>1, <1>2, KindsAre DEF Fits, WrittenAs
  <2>2. PICK r \in Sixteen : r = Reverse(d)
    BY <1>1, <2>1, Reversed
  <2>3. Spaced(key2eng(r), 12)
    BY KeyTextIs
  <2> QED BY <2>1, <2>2, <2>3 DEF Spaced
<1>3. CASE f # "words"
  <2>1. WrittenAs(a, f) = AsString(<<VER[k], d>>)
    BY <1>1, <1>3 DEF WrittenAs
  <2>2. VER[k] \in Byte
    BY VersionsDiffer
  <2> QED BY <2>1, <2>2, AddressPiece
<1> QED BY <1>2, <1>3

\* The text that is kept, when it is about to be read.
LEMMA KeptIs ==
    ASSUME OriginInv, Kept, origin # Cleared
    PROVE  \E k \in Kinds, d \in Seq(Byte) :
               /\ origin = <<VER[k], d>> /\ d # <<>> /\ (k = "seed" => d \in Sixteen)
               /\ KindOf(origin) = k
               /\ \/ form = "words" /\ k = "seed" /\ Around(key2eng(Reverse(d)), text)
                  \/ form # "words" /\ form = k /\ Around(AsString(<<VER[k], d>>), text)
<1>1. Address(origin) /\ Fits(origin, form)
  BY DEF OriginInv
<1>2. PICK k \in Kinds, d \in Seq(Byte) :
               /\ origin = <<VER[k], d>> /\ origin[1] = VER[k] /\ origin[2] = d /\ d # <<>>
               /\ k = "seed" => d \in Sixteen
               /\ \A l \in Kinds : Is(origin, l) <=> l = k
  BY <1>1, AddressParts
<1>3. KindOf(origin) = k
  BY <1>2, KindIs
<1>4. "seed" \in Kinds
  BY KindsAre
<1>5. PICK w : w = WrittenAs(origin, form)
  OBVIOUS
<1>6. form = "words" => k = "seed" /\ w = key2eng(Reverse(d))
  BY <1>1, <1>2, <1>4, <1>5 DEF Fits, WrittenAs
<1>7. form # "words" => form = k /\ w = AsString(<<VER[k], d>>)
  BY <1>1, <1>2, <1>5 DEF Fits, WrittenAs
<1>8. w \in Seq(Nat)
  BY <1>1, <1>5, WrittenType
<1>9. Around(w, text)
  <2>1. CASE touched = "no"
    BY <1>5, <1>8, <2>1, AroundSame DEF OriginInv
  <2>2. CASE touched = "padded"
    BY <1>5, <1>8, <2>2, AroundPadded DEF OriginInv
  <2> QED BY <2>1, <2>2 DEF Kept
<1> QED BY <1>2, <1>3, <1>6, <1>7, <1>9

\* What the calls make of a text that is kept.
LEMMA SetReads ==
    ASSUME OriginInv, Kept, origin # Cleared, NEW kind \in Kinds,
           NEW read, read = Numbered(setOf(text, kind))
    PROVE  /\ read.rc = 1 <=> form # "words" /\ kind = KindOf(origin)
           /\ read.b58 = IF read.rc = 1 THEN origin ELSE Cleared
           /\ read.rc = 1 => /\ isValid(read.b58) /\ SignsForItsOwn(read.b58)
                             /\ CompareTo(read.b58, origin) = 0
<1>1. PICK k \in Kinds, d \in Seq(Byte) :
               /\ origin = <<VER[k], d>> /\ d # <<>> /\ (k = "seed" => d \in Sixteen)
               /\ KindOf(origin) = k
               /\ \/ form = "words" /\ k = "seed" /\ Around(key2eng(Reverse(d)), text)
                  \/ form # "words" /\ form = k /\ Around(AsString(<<VER[k], d>>), text)
  BY KeptIs
<1>2. PICK got : got = setOf(text, kind)
  OBVIOUS
<1>3. got = SetString(text, VER[kind])
  BY <1>2, setOfIs
<1>4. read.rc = (IF got.ok THEN 1 ELSE 0) /\ read.b58 = got.b58
  BY <1>2 DEF Numbered
<1>5. CASE form = "words"
  <2>1. PICK r \in Sixteen : r = Reverse(d) /\ Around(key2eng(r), text)
    BY <1>1, <1>5, Reversed
  <2>2. got = [ok |-> FALSE, b58 |-> Cleared]
    BY <1>3, <2>1, WordsNoAddress
  <2>3. got.ok = FALSE /\ got.b58 = Cleared
    BY <2>2
  <2>4. read.rc = 0 /\ read.rc # 1 /\ read.b58 = Cleared
    BY <1>4, <2>3
  <2> QED BY <1>5, <2>4
<1>6. CASE form # "words"
  <2>1. PICK v \in Byte : v = VER[k] /\ Around(AsString(<<v, d>>), text)
    BY <1>1, <1>6, VersionsDiffer
  <2>2. got = IF VER[kind] = v THEN [ok |-> TRUE, b58 |-> <<v, d>>] ELSE [ok |-> FALSE, b58 |-> Cleared]
    <3>1. PICK version : version = VER[kind]
      OBVIOUS
    <3>2. Around(AsString(<<v, d>>), text)
      BY <2>1
    <3>3. SetString(text, version) = IF version = v THEN [ok |-> TRUE, b58 |-> <<v, d>>]
                                     ELSE [ok |-> FALSE, b58 |-> Cleared]
      BY <3>2, AddressDecoded
    <3> QED BY <1>3, <3>1, <3>3
  <2>3. CASE kind = k
    <3>1. got = [ok |-> TRUE, b58 |-> origin]
      BY <1>1, <2>1, <2>2, <2>3
    <3>2. got.ok = TRUE /\ got.b58 = origin
      BY <3>1
    <3>3. read.rc = 1 /\ read.b58 = origin
      BY <1>4, <3>2
    <3>4. origin[2] = d
      BY <1>1, PairHas
    <3>5. isValid(origin)
      BY <1>1, <3>4 DEF isValid
    <3>6. SignsForItsOwn(origin)
      BY <1>1, AddressSigns
    <3>7. CompareTo(origin, origin) = 0
      <4>1. CompareTo(<<v, d>>, <<v, d>>) = 0
        BY CompareSame
      <4> QED BY <1>1, <2>1, <4>1
    <3> QED BY <1>1, <1>6, <2>3, <3>3, <3>5, <3>6, <3>7
  <2>4. CASE kind # k
    <3>1. VER[kind] # v
      BY <2>1, <2>4, VersionsDiffer
    <3>2. got.ok = FALSE /\ got.b58 = Cleared
      BY <2>2, <3>1
    <3>3. read.rc = 0 /\ read.rc # 1 /\ read.b58 = Cleared
      BY <1>4, <3>2
    <3> QED BY <1>1, <2>4, <3>3
  <2> QED BY <2>3, <2>4
<1> QED BY <1>5, <1>6

LEMMA WordsRead ==
    ASSUME OriginInv, Kept, origin # Cleared, NEW a, NEW read, read = setSeed1751(a, text)
    PROVE  IF form # "words" THEN read.rc = -1 /\ read.b58 = a
           ELSE IF HasLastShortWord THEN read.rc = 0 /\ read.b58 = a
           ELSE read.rc = 1 /\ read.b58 = origin
<1>1. PICK k \in Kinds, d \in Seq(Byte) :
               /\ origin = <<VER[k], d>> /\ d # <<>> /\ (k = "seed" => d \in Sixteen)
               /\ KindOf(origin) = k
               /\ \/ form = "words" /\ k = "seed" /\ Around(key2eng(Reverse(d)), text)
                  \/ form # "words" /\ form = k /\ Around(AsString(<<VER[k], d>>), text)
  BY KeptIs
<1>2. CASE form = "words"
  <2>1. d \in Sixteen /\ Around(key2eng(Reverse(d)), text) /\ origin = createSeed(d)
    BY <1>1, <1>2 DEF createSeed, SetData
  <2>2. PICK r \in Sixteen : r = Reverse(d)
    BY <2>1, Reversed
  <2>3. HasLastShortWord <=> KeyMissed(r)
    <3>1. Seen(text) <=> KeyMissed(r)
      BY <2>1, <2>2, WordsSeen
    <3> QED BY <3>1 DEF Seen, HasLastShortWord
  <2>4. read = IF KeyMissed(r) THEN [rc |-> 0, b58 |-> a] ELSE [rc |-> 1, b58 |-> createSeed(d)]
    BY <2>1, <2>2, SeedWordsRead
  <2>5. CASE KeyMissed(r)
    <3>1. read = [rc |-> 0, b58 |-> a]
      BY <2>4, <2>5
    <3>2. read.rc = 0 /\ read.b58 = a
      BY <3>1
    <3> QED BY <1>2, <2>3, <2>5, <3>2
  <2>6. CASE ~KeyMissed(r)
    <3>1. read = [rc |-> 1, b58 |-> origin]
      BY <2>1, <2>4, <2>6
    <3>2. read.rc = 1 /\ read.b58 = origin
      BY <3>1
    <3> QED BY <1>2, <2>3, <2>6, <3>2
  <2> QED BY <2>5, <2>6
<1>3. CASE form # "words"
  <2>1. PICK v \in Byte : v = VER[k] /\ Around(AsString(<<v, d>>), text)
    BY <1>1, <1>3, VersionsDiffer
  <2>2. read = [rc |-> -1, b58 |-> a]
    BY <2>1, AddressWordsRead
  <2>3. read.rc = -1 /\ read.b58 = a
    BY <2>2
  <2> QED BY <1>3, <2>3
<1> QED BY <1>2, <1>3

LEMMA GenericReads ==
    ASSUME OriginInv, Kept, origin # Cleared, text # <<>>, NEW a,
           NEW read, read = Numbered(setSeedGeneric(a, text))
    PROVE  form # "generator" /\ ~HasLastShortWord =>
              /\ read.rc = 1 <=> form \notin Range(Refused)
              /\ read.b58 = IF read.rc = 1 THEN origin ELSE a
<1>1. PICK k \in Kinds, d \in Seq(Byte) :
               /\ origin = <<VER[k], d>> /\ d # <<>> /\ (k = "seed" => d \in Sixteen)
               /\ KindOf(origin) = k
               /\ \/ form = "words" /\ k = "seed" /\ Around(key2eng(Reverse(d)), text)
                  \/ form # "words" /\ form = k /\ Around(AsString(<<VER[k], d>>), text)
  BY KeptIs
<1>2. PICK got : got = setSeedGeneric(a, text)
  OBVIOUS
<1>3. read.rc = (IF got.ok THEN 1 ELSE 0) /\ read.b58 = got.b58
  BY <1>2 DEF Numbered
<1>4. "words" \notin Range(Refused) /\ "seed" \notin Range(Refused)
  BY RefusedAre
<1>7. PICK p : p = createSeed(PassPhraseToKey(text))
  OBVIOUS
<1>8. CASE form = "words"
  <2>1. d \in Sixteen /\ Around(key2eng(Reverse(d)), text) /\ origin = createSeed(d)
    BY <1>1, <1>8 DEF createSeed, SetData
  <2>2. PICK r \in Sixteen : r = Reverse(d)
    BY <2>1, Reversed
  <2>3. HasLastShortWord <=> KeyMissed(r)
    <3>1. Seen(text) <=> KeyMissed(r)
      BY <2>1, <2>2, WordsSeen
    <3> QED BY <3>1 DEF Seen, HasLastShortWord
  <2>4. got = [ok |-> TRUE, b58 |-> IF KeyMissed(r) THEN p ELSE origin]
    BY <1>2, <1>7, <2>1, <2>2, GenericWords
  <2>5. got.ok = TRUE /\ got.b58 = IF KeyMissed(r) THEN p ELSE origin
    BY <2>4
  <2>6. read.rc = 1 /\ read.b58 = IF KeyMissed(r) THEN p ELSE origin
    BY <1>3, <2>5
  <2> QED BY <1>4, <1>8, <2>3, <2>6
<1>9. CASE form # "words" /\ k \in Range(Refused)
  <2>1. got = [ok |-> FALSE, b58 |-> a]
    BY <1>1, <1>2, <1>9, GenericRefuses
  <2>2. got.ok = FALSE /\ got.b58 = a
    BY <2>1
  <2>3. read.rc = 0 /\ read.rc # 1 /\ read.b58 = a
    BY <1>3, <2>2
  <2> QED BY <1>1, <1>4, <1>9, <2>3
<1>10. CASE form # "words" /\ k \notin Range(Refused)
  <2>1. got = [ok |-> TRUE, b58 |-> IF k = "seed" THEN <<VER[k], d>> ELSE createSeed(PassPhraseToKey(text))]
    BY <1>1, <1>2, <1>10, GenericAddress
  <2>2. got.ok = TRUE /\ got.b58 = IF k = "seed" THEN origin ELSE p
    BY <1>1, <1>7, <2>1
  <2>3. read.rc = 1 /\ read.b58 = IF k = "seed" THEN origin ELSE p
    BY <1>3, <2>2
  <2>4. k = "generator" \/ k = "seed"
    BY <1>10, KindsAre, RefusedAre
  <2> QED BY <1>1, <1>10, <2>3, <2>4
<1> QED BY <1>8, <1>9, <1>10

\* A step that leaves the keys alone.
LEMMA KeysStillInv ==
    ASSUME SiteInv, KeysStill
    PROVE  SiteInv'
BY DEF SiteInv, KeysStill, ObjectInv, OriginInv, TextInv, TextsReadBack, Kept, HasLastShortWord

\* Before a text is read, there is nothing to say about results.
LEMMA NothingRead ==
    ASSUME result' = NoResult
    PROVE  TextsReadBack'
<1>1. result'[1] = "none"
  BY DEF NoResult
<1>2. result'[1] # "set" /\ result'[1] # "words" /\ result'[1] # "generic"
  BY <1>1
<1> QED BY <1>2 DEF TextsReadBack

\* What is known of a text stays so while it is read.
LEMMA ReceiveInv ==
    ASSUME SiteInv, NEW call, call # "none", NEW kind, NEW read, Receive(call, kind, read)
    PROVE  /\ ObjectInv' /\ OriginInv' /\ TextInv'
           /\ na' = read.b58 /\ text # <<>>
           /\ result'[1] = call /\ result'[2] = kind /\ result'[3] = read.rc /\ result'[4] = na
           /\ Kept' = Kept /\ origin' = origin /\ form' = form
           /\ HasLastShortWord' = HasLastShortWord
<1>1. /\ na' = read.b58 /\ text # <<>> /\ result' = <<call, kind, read.rc, na>>
      /\ origin' = origin /\ form' = form /\ text' = text /\ touched' = touched
  BY DEF Receive
<1>2. result'[1] = call
  BY <1>1
<1>3. ObjectInv' /\ TextInv'
  <2>1. result' # NoResult
    BY <1>2 DEF NoResult
  <2> QED BY <1>1, <2>1 DEF SiteInv, ObjectInv, TextInv
<1>4. OriginInv'
  BY <1>1 DEF SiteInv, OriginInv
<1>5. Kept' = Kept /\ HasLastShortWord' = HasLastShortWord
  BY <1>1 DEF Kept, HasLastShortWord
<1>6. result'[1] = call /\ result'[2] = kind /\ result'[3] = read.rc /\ result'[4] = na
  BY <1>1
<1> QED BY <1>1, <1>3, <1>4, <1>5, <1>6

LEMMA SiteInitInv == SiteInit => SiteInv
<1>1. SUFFICES ASSUME SiteInit PROVE SiteInv
  OBVIOUS
<1>2. na = Cleared /\ origin = Cleared /\ text = <<>> /\ touched = "no" /\ result = NoResult
  BY <1>1 DEF SiteInit
<1> QED BY <1>2 DEF SiteInv, ObjectInv, OriginInv, TextInv, TextsReadBack

LEMMA SiteStepInv ==
    ASSUME SiteInv, [SiteNext]_siteVars
    PROVE  SiteInv'
<1>1. ObjectInv /\ OriginInv /\ TextInv /\ TextsReadBack
  BY DEF SiteInv
<1>2. CASE Create
  <2>1. PICK s \in SeedBytes : na' \in Made(s)
    BY <1>2 DEF Create
  <2>2. Address(na')
    BY <2>1, MadeAddress
  <2>3. /\ text = <<>> /\ origin' = origin /\ form' = form /\ text' = text
        /\ touched' = touched /\ result' = result
    BY <1>2 DEF Create
  <2>4. result' = NoResult
    BY <1>1, <2>3 DEF TextInv
  <2>5. ObjectInv' /\ OriginInv' /\ TextInv'
    BY <1>1, <2>2, <2>3 DEF ObjectInv, OriginInv, TextInv
  <2> QED BY <2>4, <2>5, NothingRead DEF SiteInv
<1>3. CASE TypeText
  <2>1. /\ na = Cleared /\ text = <<>> /\ touched' = "typed"
        /\ na' = na /\ origin' = origin /\ form' = form /\ result' = result
    BY <1>3 DEF TypeText
  <2>2. result' = NoResult
    BY <1>1, <2>1 DEF TextInv
  <2>3. ObjectInv' /\ OriginInv' /\ TextInv'
    BY <1>1, <2>1, <2>2 DEF ObjectInv, OriginInv, TextInv
  <2> QED BY <2>2, <2>3, NothingRead DEF SiteInv
<1>4. CASE Pad
  <2>1. /\ text # <<>> /\ touched = "no" /\ result = NoResult
        /\ text' = <<Space>> \o text \o <<Space>> /\ touched' = "padded"
        /\ na' = na /\ origin' = origin /\ form' = form /\ result' = result
    BY <1>4 DEF Pad
  <2>2. text' # <<>>
    <3>1. origin # Cleared /\ text = WrittenAs(origin, form)
      BY <1>1, <2>1 DEF OriginInv, TextInv
    <3>2. WrittenAs(origin, form) \in Seq(Nat)
      BY <1>1, <3>1, WrittenType DEF OriginInv
    <3> QED BY <2>1, <3>1, <3>2, AroundPadded
  <2>3. ObjectInv' /\ OriginInv' /\ TextInv'
    BY <1>1, <2>1, <2>2 DEF ObjectInv, OriginInv, TextInv
  <2>4. result' = NoResult
    BY <2>1
  <2> QED BY <2>3, <2>4, NothingRead DEF SiteInv
<1>5. CASE Damage
  <2>1. /\ touched' = "damaged" /\ result' = NoResult
        /\ na' = na /\ origin' = origin /\ form' = form
    BY <1>5 DEF Damage
  <2>2. ObjectInv' /\ OriginInv' /\ TextInv'
    <3>1. result = NoResult
      BY <1>5 DEF Damage
    <3> QED BY <1>1, <2>1, <3>1 DEF ObjectInv, OriginInv, TextInv
  <2> QED BY <2>1, <2>2, NothingRead DEF SiteInv
<1>6. ASSUME NEW kind \in Kinds \cup {"words"}, WriteText(kind) PROVE SiteInv'
  <2>1. /\ text = <<>> /\ text' = humanOf(na)[kind] /\ text' # ThrowsError
        /\ origin' = (IF kind = "accountID" THEN createAccountID(getAccountID(na)) ELSE na)
        /\ form' = kind /\ na' = Cleared /\ touched' = touched /\ result' = result
    BY <1>6 DEF WriteText
  <2>2. na # Cleared
    BY <2>1, ClearedNone
  <2>3. Address(na)
    BY <1>1, <2>1, <2>2 DEF ObjectInv, TextInv
  <2>4. PICK o : o = IF kind = "accountID" THEN createAccountID(getAccountID(na)) ELSE na
    OBVIOUS
  <2>5. Address(o) /\ Fits(o, kind) /\ humanOf(na)[kind] = WrittenAs(o, kind)
    BY <2>1, <2>3, <2>4, WroteIs
  <2>6. touched # "padded" /\ result' = NoResult
    BY <1>1, <2>1 DEF TextInv
  <2>7. o # Cleared
    BY <2>5, AddressNotCleared
  <2>8. ObjectInv' /\ OriginInv' /\ TextInv'
    BY <2>1, <2>4, <2>5, <2>6, <2>7 DEF ObjectInv, OriginInv, TextInv
  <2> QED BY <2>6, <2>8, NothingRead DEF SiteInv
<1>7. ASSUME NEW kind \in Kinds, Set(kind) PROVE SiteInv'
  <2>1. PICK read : read = Numbered(setOf(text, kind))
    OBVIOUS
  <2>2. Receive("set", kind, read)
    BY <1>7, <2>1 DEF Set
  <2>3. /\ ObjectInv' /\ OriginInv' /\ TextInv' /\ na' = read.b58
        /\ result'[1] = "set" /\ result'[2] = kind /\ result'[3] = read.rc
        /\ Kept' = Kept /\ origin' = origin /\ form' = form
    BY <2>2, ReceiveInv
  <2>4. TextsReadBack'
    <3>1. SUFFICES ASSUME Kept, origin # Cleared PROVE TextsReadBack'
      BY <2>3 DEF TextsReadBack
    <3>2. /\ read.rc = 1 <=> form # "words" /\ kind = KindOf(origin)
          /\ read.b58 = IF read.rc = 1 THEN origin ELSE Cleared
          /\ read.rc = 1 => /\ isValid(read.b58) /\ SignsForItsOwn(read.b58)
                            /\ CompareTo(read.b58, origin) = 0
      BY <1>1, <2>1, <3>1, SetReads
    <3>3. KindOf(origin)' = KindOf(origin)
      BY <2>3 DEF KindOf
    <3>4. (isValid(na) /\ SignsForItsOwn(na) /\ CompareTo(na, origin) = 0)' <=>
          isValid(read.b58) /\ SignsForItsOwn(read.b58) /\ CompareTo(read.b58, origin) = 0
      BY <2>3
    <3>5. result'[1] # "words" /\ result'[1] # "generic"
      BY <2>3
    <3> QED BY <2>3, <3>2, <3>3, <3>4, <3>5 DEF TextsReadBack
  <2> QED BY <2>3, <2>4 DEF SiteInv
<1>8. CASE SetWords
  <2>1. PICK read : read = setSeed1751(na, text)
    OBVIOUS
  <2>2. Receive("words", "seed", read)
    BY <1>8, <2>1 DEF SetWords
  <2>3. /\ ObjectInv' /\ OriginInv' /\ TextInv' /\ na' = read.b58
        /\ result'[1] = "words" /\ result'[3] = read.rc /\ result'[4] = na
        /\ Kept' = Kept /\ origin' = origin /\ form' = form
        /\ HasLastShortWord' = HasLastShortWord
    BY <2>2, ReceiveInv
  <2>4. TextsReadBack'
    <3>1. SUFFICES ASSUME Kept, origin # Cleared PROVE TextsReadBack'
      BY <2>3 DEF TextsReadBack
    <3>2. IF form # "words" THEN read.rc = -1 /\ read.b58 = na
          ELSE IF HasLastShortWord THEN read.rc = 0 /\ read.b58 = na
          ELSE read.rc = 1 /\ read.b58 = origin
      BY <1>1, <2>1, <3>1, WordsRead
    <3>3. result'[1] # "set" /\ result'[1] # "generic"
      BY <2>3
    <3> QED BY <2>3, <3>2, <3>3 DEF TextsReadBack
  <2> QED BY <2>3, <2>4 DEF SiteInv
<1>9. CASE SetGeneric
  <2>1. PICK read : read = Numbered(setSeedGeneric(na, text))
    OBVIOUS
  <2>2. Receive("generic", "seed", read)
    BY <1>9, <2>1 DEF SetGeneric
  <2>3. /\ ObjectInv' /\ OriginInv' /\ TextInv' /\ na' = read.b58 /\ text # <<>>
        /\ result'[1] = "generic" /\ result'[3] = read.rc /\ result'[4] = na
        /\ Kept' = Kept /\ origin' = origin /\ form' = form
        /\ HasLastShortWord' = HasLastShortWord
    BY <2>2, ReceiveInv
  <2>4. TextsReadBack'
    <3>1. SUFFICES ASSUME Kept, origin # Cleared PROVE TextsReadBack'
      BY <2>3 DEF TextsReadBack
    <3>2. form # "generator" /\ ~HasLastShortWord =>
              /\ read.rc = 1 <=> form \notin Range(Refused)
              /\ read.b58 = IF read.rc = 1 THEN origin ELSE na
      BY <1>1, <2>1, <2>3, <3>1, GenericReads
    <3>3. result'[1] # "set" /\ result'[1] # "words"
      BY <2>3
    <3> QED BY <2>3, <3>2, <3>3 DEF TextsReadBack
  <2> QED BY <2>3, <2>4 DEF SiteInv
<1>10. CASE AddLine
  BY <1>10, KeysStillInv DEF AddLine
<1>11. ASSUME NEW end \in LineEnds, Fetch(end) PROVE SiteInv'
  BY <1>11, KeysStillInv DEF Fetch
<1>12. CASE UNCHANGED siteVars
  BY <1>12, KeysStillInv DEF siteVars, KeysStill
<1> QED BY <1>2, <1>3, <1>4, <1>5, <1>6, <1>7, <1>8, <1>9, <1>10, <1>11, <1>12 DEF SiteNext

\* Whatever the seeds, the texts and the order of the calls, a text that the
\* program wrote is read as what it was made of: by the call for its kind, by
\* none for another, as words, and by the general reader of seeds, but for
\* the two texts that TextsReadBack leaves out.
THEOREM SiteReadsBack == SiteSpec => []TextsReadBack
<1>1. SiteInv => TextsReadBack
  BY DEF SiteInv
<1> QED BY <1>1, SiteInitInv, SiteStepInv, PTL DEF SiteSpec

-------------------------------------------------------------------------------
(* The wallet.                                                             *)

USE DatabaseAssumption, WalletAssumption

-------------------------------------------------------------------------------
(* Blob literals.                                                          *)

\* The digits that SqliteDatabase::escape writes for a byte are read as it.
LEMMA DigitsOfByte ==
    ASSUME NEW b \in 0..255
    PROVE  /\ b \div 16 \in 0..15 /\ b % 16 \in 0..15
           /\ 16 * (b \div 16) + (b % 16) = b
  BY SMT

\* A text has half as many bytes as digits.
LEMMA Halved ==
    ASSUME NEW n \in Nat
    PROVE  (2 * n) \div 2 = n
  BY SMT

\* What is stored with the literal that escape makes is what was given.
LEMMA StoredAsGiven ==
    ASSUME NEW k \in Text \cup {NoValue}
    PROVE  Stored(k) = k
<1>1. CASE k = NoValue
  BY <1>1 DEF Stored
<1>2. CASE k # NoValue
  <2>1. k \in Seq(0..255)
    BY <1>2
  <2> DEFINE n == Len(k)
             digits == escape(k)
  <2>2. n \in Nat /\ k = [i \in 1..n |-> k[i]] /\ \A i \in 1..n : k[i] \in 0..255
    <3>1. Len(k) \in Nat /\ k \in [1..Len(k) -> 0..255]
      BY ZenonT(40), <2>1, LenProperties
    <3> QED
      BY SMTT(40), <3>1
  <2>3. \A i \in 1..(2 * n) :
            /\ i % 2 = 1 => (i + 1) \div 2 \in 1..n
            /\ i % 2 # 1 => i \div 2 \in 1..n
    BY SMTT(40), <2>2
  <2>4. digits \in Seq(0..15) /\ Len(digits) = 2 * n
    <3>1. \A i \in 1..(2 * n) : digits[i] \in 0..15
      BY ZenonT(40), <2>2, <2>3, DigitsOfByte DEF escape
    <3>2. digits = [i \in 1..(2 * n) |-> digits[i]]
      BY DEF escape
    <3> QED
      BY <3>1, <3>2, <2>2
  <2>5. \A i \in 1..n : digits[2 * i - 1] = k[i] \div 16 /\ digits[2 * i] = k[i] % 16
    <3> TAKE i \in 1..n
    <3>1. /\ 2 * i - 1 \in 1..(2 * n) /\ (2 * i - 1) % 2 = 1 /\ ((2 * i - 1) + 1) \div 2 = i
          /\ 2 * i \in 1..(2 * n) /\ (2 * i) % 2 # 1 /\ (2 * i) \div 2 = i
      BY SMTT(40), <2>2
    <3> QED
      BY <3>1 DEF escape
  <2>6. (2 * n) \div 2 = n
    BY <2>2, Halved
  <2>7. Blob(digits) = [i \in 1..n |-> 16 * digits[2 * i - 1] + digits[2 * i]]
    BY <2>4, <2>6 DEF Blob
  <2>8. \A i \in 1..n : 16 * digits[2 * i - 1] + digits[2 * i] = k[i]
    BY <2>2, <2>5, DigitsOfByte
  <2>9. Blob(digits) = k
    <3> HIDE DEF digits, n
    <3> QED
      BY <2>2, <2>7, <2>8
  <2> QED
    BY <1>2, <2>9 DEF Stored
<1> QED
  BY <1>1, <1>2

-------------------------------------------------------------------------------
(* Types.                                                                  *)

\* A statement that fails leaves well-typed state (SqliteDatabase::executeSQL).
LEMMA FailsType ==
    ASSUME WalletTypeOK, NEW t \in Thread, Fails(t)
    PROVE  /\ disk' = disk /\ view' = view /\ txn' = txn
           /\ mCurrentStmt' \in [owner : Thread \cup {NoThread}, rows : Seq(Row)]
           /\ mMoreRows' \in BOOLEAN
<1>1. <<>> \in Seq(Row)
  BY EmptySeq
<1>2. mCurrentStmt' \in [owner : Thread \cup {NoThread}, rows : Seq(Row)]
  <2>1. NoStmt \in [owner : Thread \cup {NoThread}, rows : Seq(Row)]
    BY <1>1 DEF NoStmt
  <2>2. [owner |-> t, rows |-> <<>>] \in [owner : Thread \cup {NoThread}, rows : Seq(Row)]
    BY <1>1
  <2>3. mCurrentStmt' = NoStmt \/ mCurrentStmt' = [owner |-> t, rows |-> <<>>]
    BY DEF Fails
  <2> QED
    BY ZenonT(40), <2>1, <2>2, <2>3
<1>3. mMoreRows' \in BOOLEAN
  BY DEF Fails, WalletTypeOK, DbTypeOK
<1> QED
  BY <1>2, <1>3 DEF Fails

\* So does one that fails for a passing reason.
LEMMA FailsForNowType ==
    ASSUME WalletTypeOK, NEW t \in Thread, FailsForNow(t)
    PROVE  Fails(t) /\ faults' \in Nat
  BY DEF FailsForNow, WalletTypeOK, DbTypeOK

\* And a query that returns rows.
LEMMA QueryType ==
    ASSUME WalletTypeOK, NEW t \in Thread, NEW rows \in Seq(Row), Query(t, rows)
    PROVE  /\ disk' = disk /\ view' = view /\ txn' = txn /\ faults' = faults
           /\ mCurrentStmt' \in [owner : Thread \cup {NoThread}, rows : Seq(Row)]
           /\ mMoreRows' \in BOOLEAN
  BY DEF Query

\* And one that changes the tables.
LEMMA ChangeType ==
    ASSUME WalletTypeOK, NEW t \in Thread, NEW new \in Tables, Change(t, new)
    PROVE  /\ disk' \in Tables /\ view' \in Tables /\ txn' = txn /\ faults' = faults
           /\ mCurrentStmt' \in [owner : Thread \cup {NoThread}, rows : Seq(Row)]
           /\ mMoreRows' \in BOOLEAN
<1>1. <<>> \in Seq(Row)
  BY EmptySeq
<1> QED
  BY <1>1 DEF Change, WalletTypeOK, DbTypeOK

\* The identities are rows.
LEMMA IdsAreRows ==
    ASSUME WalletTypeOK
    PROVE  view.ids \in Seq(IdentityRow) /\ view.ids \in Seq(Row)
  BY DEF WalletTypeOK, DbTypeOK, Tables, Row

\* The empty statement of a thread or of nobody is well-typed.
LEMMA EmptyStatement ==
    ASSUME NEW t \in Thread \cup {NoThread}
    PROVE  [owner |-> t, rows |-> <<>>] \in [owner : Thread \cup {NoThread}, rows : Seq(Row)]
<1>1. <<>> \in Seq(Row)
  BY EmptySeq
<1> QED
  BY <1>1

\* A thread moves to a place of its own.
LEMMA GotoType ==
    ASSUME WalletTypeOK, NEW t \in Thread, NEW place, Goto(t, place),
           place \in IF t = Main THEN MainPlaces ELSE {"idle", "fetching", "each"}
    PROVE  /\ pc' \in [Thread -> MainPlaces \cup {"idle", "fetching", "each"}]
           /\ pc'[Main] \in MainPlaces
           /\ \A c \in Callers : pc'[c] \in {"idle", "fetching", "each"}
<1> DEFINE Places == {"idle", "fetching", "each"}
<1>1. pc \in [Thread -> MainPlaces \cup Places] /\ pc[Main] \in MainPlaces
      /\ \A c \in Callers : pc[c] \in Places
  BY DEF WalletTypeOK
<1>2. pc' = [pc EXCEPT ![t] = place]
  BY DEF Goto
<1> HIDE DEF Places
<1>3. place \in IF t = Main THEN MainPlaces ELSE Places
  BY DEF Places
<1>4. \A c \in Thread : pc'[c] = IF c = t THEN place ELSE pc[c]
  BY <1>1, <1>2
<1>5. pc' \in [Thread -> MainPlaces \cup Places]
  BY <1>1, <1>2, <1>3
<1>6. pc'[Main] \in MainPlaces
  BY <1>1, <1>3, <1>4
<1>7. \A c \in Callers : pc'[c] \in Places
  BY <1>1, <1>3, <1>4 DEF Callers
<1> QED
  BY <1>5, <1>6, <1>7 DEF Places

\* Every step keeps the types.
LEMMA TypeStep ==
    ASSUME WalletInv, [WalletNext]_allVars
    PROVE  WalletTypeOK'
<1> USE DEF MainPlaces, Callers
<1>1. WalletTypeOK
  BY DEF WalletInv
<1>2. ASSUME Open PROVE WalletTypeOK'
  BY <1>1, <1>2, GotoType DEF Open, WalletTypeOK, DbTypeOK, dbVars
<1>3. ASSUME InitStatement PROVE WalletTypeOK'
  <2>1. CASE pc[Main] = "begin" /\ BeginTransaction(Main) /\ Goto(Main, "tables") /\ lost' = lost
    <3>1. CASE FailsForNow(Main)
      BY <1>1, <1>3, <2>1, <3>1, FailsForNowType, FailsType, GotoType DEF InitStatement, WalletTypeOK, DbTypeOK
    <3>2. CASE ~FailsForNow(Main)
      BY ZenonT(40), <1>1, <1>3, <2>1, <3>2, EmptyStatement, GotoType
         DEF InitStatement, BeginTransaction, WalletTypeOK, DbTypeOK
    <3> QED
      BY <3>1, <3>2
  <2>2. CASE pc[Main] = "tables" /\ CreateTables(Main) /\ Goto(Main, "end") /\ lost' = lost
    <3>1. CASE FailsForNow(Main)
      BY <1>1, <1>3, <2>2, <3>1, FailsForNowType, FailsType, GotoType DEF InitStatement, WalletTypeOK, DbTypeOK
    <3>2. CASE Fails(Main) /\ UNCHANGED faults
      BY <1>1, <1>3, <2>2, <3>2, FailsType, GotoType DEF InitStatement, WalletTypeOK, DbTypeOK
    <3>3. CASE Change(Main, [view EXCEPT !.schema = TRUE])
      <4>1. [view EXCEPT !.schema = TRUE] \in Tables
        BY <1>1 DEF WalletTypeOK, DbTypeOK, Tables
      <4> QED
        BY <1>1, <1>3, <2>2, <3>3, <4>1, ChangeType, GotoType DEF InitStatement, WalletTypeOK, DbTypeOK
    <3> QED
      BY <2>2, <3>1, <3>2, <3>3 DEF CreateTables
  <2>3. CASE pc[Main] = "end" /\ EndTransaction(Main) /\ Goto(Main, "load") /\ lost' = (lost \/ txn')
    <3>1. CASE FailsForNow(Main)
      BY <1>1, <1>3, <2>3, <3>1, FailsForNowType, FailsType, GotoType DEF InitStatement, WalletTypeOK, DbTypeOK
    <3>2. CASE Fails(Main) /\ UNCHANGED faults
      BY <1>1, <1>3, <2>3, <3>2, FailsType, GotoType DEF InitStatement, WalletTypeOK, DbTypeOK
    <3>3. CASE txn /\ disk' = view /\ mCurrentStmt' = [owner |-> Main, rows |-> <<>>]
               /\ mMoreRows' = FALSE /\ txn' = FALSE /\ UNCHANGED <<view, faults>>
      BY ZenonT(40), <1>1, <1>3, <2>3, <3>3, EmptyStatement, GotoType DEF InitStatement, WalletTypeOK, DbTypeOK
    <3> QED
      BY <2>3, <3>1, <3>2, <3>3 DEF EndTransaction
  <2> QED
    BY <1>1, <1>3, <2>1, <2>2, <2>3 DEF InitStatement
<1>4. ASSUME NEW place \in MainPlaces, NEW reading \in MainPlaces, NEW failed \in MainPlaces,
             LoadStatement(place, reading, failed)
      PROVE  WalletTypeOK'
  <2>1. CASE FailsForNow(Main) /\ Goto(Main, failed) /\ mLock' = NoThread
    BY <1>1, <1>4, <2>1, FailsForNowType, FailsType, GotoType DEF LoadStatement, WalletTypeOK, DbTypeOK
  <2>2. CASE Fails(Main) /\ UNCHANGED faults /\ Goto(Main, failed) /\ mLock' = NoThread
    BY <1>1, <1>4, <2>2, FailsType, GotoType DEF LoadStatement, WalletTypeOK, DbTypeOK
  <2>3. CASE /\ Query(Main, view.ids)
             /\ IF view.ids = <<>> THEN Goto(Main, failed) /\ mLock' = NoThread
                                   ELSE Goto(Main, reading) /\ mLock' = Main
    BY <1>1, <1>4, <2>3, QueryType, IdsAreRows, GotoType DEF LoadStatement, WalletTypeOK, DbTypeOK
  <2> QED
    BY <1>1, <1>4, <2>1, <2>2, <2>3 DEF LoadStatement
<1>5. ASSUME LoadRow PROVE WalletTypeOK'
  <2>1. CurrentRow \in IdentityRow
    <3>1. mCurrentStmt.rows = view.ids /\ view.ids # <<>>
      BY <1>5 DEF LoadRow, WalletInv, RowsCurrent, LoadedInv
    <3> QED
      BY <1>1, <3>1, IdsAreRows DEF CurrentRow
  <2> QED
    BY <1>1, <1>5, <2>1, EmptyStatement, GotoType DEF LoadRow, endIterRows, NoStmt, WalletTypeOK, DbTypeOK
<1>6. ASSUME nodeIdentityCreate PROVE WalletTypeOK'
  <2>1. CASE FailsForNow(Main)
    BY <1>1, <1>6, <2>1, FailsForNowType, FailsType, GotoType DEF nodeIdentityCreate, WalletTypeOK, DbTypeOK
  <2>2. CASE Fails(Main) /\ UNCHANGED faults
    BY <1>1, <1>6, <2>2, FailsType, GotoType DEF nodeIdentityCreate, WalletTypeOK, DbTypeOK
  <2>3. ASSUME NEW k \in Identity, Change(Main, [view EXCEPT !.ids = Append(@, RowOf[k])])
        PROVE  WalletTypeOK'
    <3>1. [view EXCEPT !.ids = Append(@, RowOf[k])] \in Tables
      <4>1. Append(view.ids, RowOf[k]) \in Seq(IdentityRow)
        BY <1>1, <2>3, IdsAreRows, AppendProperties
      <4> QED
        BY <1>1, <4>1 DEF WalletTypeOK, DbTypeOK, Tables
    <3> QED
      BY <1>1, <1>6, <2>3, <3>1, ChangeType, GotoType DEF nodeIdentityCreate, WalletTypeOK, DbTypeOK
  <2> QED
    BY <1>6, <2>1, <2>2, <2>3 DEF nodeIdentityCreate
<1>7. ASSUME StartUNL PROVE WalletTypeOK'
  <2>1. mNode[1] \in Identity
    BY <1>1, <1>7, IdsAreRows DEF StartUNL, WalletInv, LoadedInv
  <2> QED
    BY <1>1, <1>7, <2>1, GotoType DEF StartUNL, dbVars, WalletTypeOK, DbTypeOK
<1>8. ASSUME NEW t \in Callers, NEW k \in Text, NEW value \in Text \cup {NoValue},
             DataChange(t, k, value)
      PROVE  WalletTypeOK'
  <2>1. CASE FailsForNow(t) /\ UNCHANGED told
    BY <1>1, <1>8, <2>1, FailsForNowType, FailsType, GotoType DEF DataChange, WalletTypeOK, DbTypeOK
  <2>2. CASE Fails(t) /\ UNCHANGED <<faults, told>>
    BY <1>1, <1>8, <2>2, FailsType, GotoType DEF DataChange, WalletTypeOK, DbTypeOK
  <2>3. CASE /\ Change(t, [view EXCEPT !.data[Stored(k)] = Stored(value)])
             /\ told' = [told EXCEPT ![k] = value]
    <3>1. [view EXCEPT !.data[k] = value] \in Tables
      BY <1>1, <1>8 DEF WalletTypeOK, DbTypeOK, Tables
    <3>2. Stored(k) = k /\ Stored(value) = value
      BY StoredAsGiven
    <3> QED
      BY <1>1, <1>8, <2>3, <3>1, <3>2, ChangeType, GotoType DEF DataChange, WalletTypeOK, DbTypeOK
  <2> QED
    BY <1>8, <2>1, <2>2, <2>3 DEF DataChange
<1>9. ASSUME NEW t \in Callers, NEW rows \in Seq(Row), NEW reading \in {"fetching", "each"},
             StartRead(t, rows, reading), arg' \in [Thread -> Text \cup {NoValue}],
             UNCHANGED <<crashes, initCount, mNode, announced, told, lost>>
      PROVE  WalletTypeOK'
  <2>1. CASE FailsForNow(t) /\ UNCHANGED <<pc, mLock>>
    BY <1>1, <1>9, <2>1, FailsForNowType, FailsType, GotoType DEF WalletTypeOK, DbTypeOK
  <2>2. CASE Fails(t) /\ UNCHANGED <<faults, pc, mLock>>
    BY <1>1, <1>9, <2>2, FailsType, GotoType DEF WalletTypeOK, DbTypeOK
  <2>3. CASE /\ Query(t, rows)
             /\ IF rows = <<>> THEN UNCHANGED <<pc, mLock>> ELSE Goto(t, reading) /\ mLock' = t
    BY <1>1, <1>9, <2>3, QueryType, GotoType DEF WalletTypeOK, DbTypeOK
  <2> QED
    BY <1>9, <2>1, <2>2, <2>3 DEF StartRead
<1>10. ASSUME NEW t \in Callers, dataFetch(t) PROVE WalletTypeOK'
  <2>1. PICK k \in Text :
            /\ LET value == view.data[Stored(k)] IN
               StartRead(t, IF value = NoValue THEN <<>> ELSE <<value>>, "fetching")
            /\ arg' = IF mLock' = t THEN [arg EXCEPT ![t] = k] ELSE arg
    BY <1>10 DEF dataFetch
  <2> DEFINE value == view.data[Stored(k)]
             rows == IF value = NoValue THEN <<>> ELSE <<value>>
  <2>2. rows \in Seq(Row)
    <3>1. value \in Text \cup {NoValue}
      BY <1>1, StoredAsGiven DEF WalletTypeOK, DbTypeOK, Tables
    <3>2. CASE value = NoValue
      BY <3>2, EmptySeq
    <3>3. CASE value # NoValue
      <4>1. value \in Row
        BY <3>1, <3>3 DEF Row
      <4> HIDE DEF value
      <4> QED
        BY <3>3, <4>1
    <3> QED
      BY <3>2, <3>3
  <2>3. arg' \in [Thread -> Text \cup {NoValue}]
    BY <1>1, <2>1 DEF WalletTypeOK
  <2>4. StartRead(t, rows, "fetching")
    BY <2>1
  <2> HIDE DEF rows, value
  <2> QED
    BY <1>9, <1>10, <2>2, <2>3, <2>4 DEF dataFetch
<1>11. ASSUME NEW t \in Callers, FetchRow(t) PROVE WalletTypeOK'
  BY <1>1, <1>11, EmptyStatement, GotoType DEF FetchRow, endIterRows, NoStmt, WalletTypeOK, DbTypeOK
<1>12. ASSUME NEW t \in Callers, ForEach(t) PROVE WalletTypeOK'
  <2>1. arg' \in [Thread -> Text \cup {NoValue}]
    BY <1>1, <1>12 DEF ForEach, WalletTypeOK
  <2> QED
    BY <1>1, <1>9, <1>12, <2>1, IdsAreRows DEF ForEach
<1>13. ASSUME NEW t \in Callers, ForEachNext(t) PROVE WalletTypeOK'
  <2>1. mCurrentStmt.rows # <<>>
    BY <1>13 DEF ForEachNext, WalletInv, RowsCurrent
  <2>2. mCurrentStmt.rows \in Seq(Row)
    BY <1>1 DEF WalletTypeOK, DbTypeOK
  <2>3. Tail(mCurrentStmt.rows) \in Seq(Row)
    BY <2>1, <2>2
  <2>4. getNextRow \in [owner : Thread \cup {NoThread}, rows : Seq(Row)]
    BY <1>1, <2>3 DEF getNextRow, WalletTypeOK, DbTypeOK
  <2> QED
    BY <1>1, <1>13, <2>4, GotoType DEF ForEachNext, WalletTypeOK, DbTypeOK
<1>14. ASSUME Crash PROVE WalletTypeOK'
  <2>1. /\ pc' \in [Thread -> MainPlaces \cup {"idle", "fetching", "each"}]
        /\ pc'[Main] \in MainPlaces
        /\ \A c \in Callers : pc'[c] \in {"idle", "fetching", "each"}
    BY <1>14 DEF Crash
  <2>2. DbTypeOK'
    <3>1. NoStmt \in [owner : Thread \cup {NoThread}, rows : Seq(Row)]
      BY EmptyStatement DEF NoStmt
    <3>2. /\ disk' = disk /\ view' = disk /\ txn' = FALSE /\ mCurrentStmt' = NoStmt
          /\ mMoreRows' = FALSE /\ mLock' = NoThread /\ faults' = faults /\ crashes' = crashes + 1
      BY <1>14 DEF Crash, DbCrash
    <3>3. crashes' \in Nat
      BY <1>1, <3>2 DEF WalletTypeOK, DbTypeOK
    <3>4. disk \in Tables /\ faults \in Nat
      BY <1>1 DEF WalletTypeOK, DbTypeOK
    <3> QED
      BY <3>1, <3>2, <3>3, <3>4, Zenon DEF DbTypeOK
  <2> QED
    BY <1>1, <1>14, <2>1, <2>2 DEF Crash, NoIdentity, WalletTypeOK
<1>15. ASSUME UNCHANGED allVars PROVE WalletTypeOK'
  BY <1>1, <1>15 DEF allVars, dbVars, walletVars, WalletTypeOK, DbTypeOK
<1>16. ASSUME nodeIdentityLoad PROVE WalletTypeOK'
  BY <1>4, <1>16 DEF nodeIdentityLoad
<1>17. ASSUME NEW t \in Callers, dataStore(t) \/ dataDelete(t) PROVE WalletTypeOK'
  BY <1>8, <1>17 DEF dataStore, dataDelete
<1> QED
  BY <1>2, <1>3, <1>5, <1>6, <1>7, <1>10, <1>11, <1>12, <1>13, <1>14, <1>15, <1>16, <1>17
     DEF WalletNext

-------------------------------------------------------------------------------
(* What each action does to the lock, the tables and the places.           *)

\* The rest of the invariant.
Rest == LockInv /\ CommitInv /\ LoadedInv /\ IdentityKept /\ RowsCurrent

\* DatabaseCon's constructor: the connection is not yet used by others.
LEMMA OpenRest ==
    ASSUME WalletInv, Open
    PROVE  Rest'
<1> USE DEF Goto, Callers, Reading, Opened
<1>1. WalletTypeOK /\ Rest
  BY DEF WalletInv, Rest
<1>2. UNCHANGED <<dbVars, arg, initCount, mNode, announced, told, lost>>
      /\ pc[Main] = "off" /\ pc'[Main] \in {"load", "begin"} /\ \A c \in Callers : pc'[c] = pc[c]
  BY <1>1 DEF Open, WalletTypeOK
<1>3. LockInv'
  BY <1>1, <1>2 DEF LockInv, dbVars, Rest
<1>4. CommitInv'
  BY <1>1, <1>2 DEF CommitInv, dbVars, Rest
<1>5. LoadedInv' /\ IdentityKept'
  BY <1>1, <1>2 DEF LoadedInv, IdentityKept, dbVars, Rest
<1>6. RowsCurrent'
  BY <1>1, <1>2 DEF RowsCurrent, dbVars, Rest
<1> QED
  BY <1>3, <1>4, <1>5, <1>6 DEF Rest

\* The init strings.
LEMMA InitRest ==
    ASSUME WalletInv, InitStatement
    PROVE  Rest'
<1> USE DEF Goto, Callers, Reading, Opened
<1>1. WalletTypeOK /\ Rest
  BY DEF WalletInv, Rest
<1>2. /\ UNCHANGED <<mLock, crashes, arg, initCount, mNode, announced, told>>
      /\ pc[Main] \in {"begin", "tables", "end"} /\ pc'[Main] \in {"tables", "end", "load"}
      /\ \A c \in Callers : pc'[c] = pc[c] /\ pc[c] = "idle"
  BY <1>1 DEF InitStatement, WalletTypeOK, Rest, LockInv
<1>3. LockInv'
  BY <1>1, <1>2 DEF LockInv, Rest
<1>4. RowsCurrent' /\ LoadedInv'
  BY <1>2 DEF RowsCurrent, LoadedInv
<1>5. CommitInv' /\ view'.ids = view.ids /\ (~lost' => ~lost /\ disk'.ids = disk.ids)
  <2>1. CASE pc[Main] = "begin" /\ BeginTransaction(Main) /\ Goto(Main, "tables") /\ lost' = lost
    <3>1. UNCHANGED <<disk, view>> /\ pc'[Main] = "tables" /\ (txn' = txn \/ txn' = TRUE)
      BY <1>1, <2>1 DEF BeginTransaction, FailsForNow, Fails, WalletTypeOK
    <3> QED
      BY <1>1, <1>2, <2>1, <3>1 DEF CommitInv, Rest
  <2>2. CASE pc[Main] = "tables" /\ CreateTables(Main) /\ Goto(Main, "end") /\ lost' = lost
    <3>1. pc'[Main] = "end" /\ txn' = txn
      BY <1>1, <2>2 DEF CreateTables, Change, FailsForNow, Fails, WalletTypeOK
    <3>2. CASE UNCHANGED <<disk, view>>
      BY <1>1, <1>2, <2>2, <3>1, <3>2 DEF CommitInv, Rest
    <3>3. CASE Change(Main, [view EXCEPT !.schema = TRUE])
      <4>1. view'.ids = view.ids /\ view'.data = view.data /\ disk' = IF txn THEN disk ELSE view'
        BY <1>1, <3>3 DEF Change, WalletTypeOK, DbTypeOK, Tables
      <4> QED
        BY <1>1, <1>2, <2>2, <3>1, <4>1 DEF CommitInv, Rest
    <3> QED
      BY <2>2, <3>2, <3>3 DEF CreateTables, FailsForNow, Fails
  <2>3. CASE pc[Main] = "end" /\ EndTransaction(Main) /\ Goto(Main, "load") /\ lost' = (lost \/ txn')
    <3>1. view' = view /\ pc'[Main] = "load"
      BY <1>1, <2>3 DEF EndTransaction, FailsForNow, Fails, WalletTypeOK
    <3>2. CASE disk' = disk /\ txn' = txn
      BY <1>1, <1>2, <2>3, <3>1, <3>2 DEF CommitInv, Rest
    <3>3. CASE disk' = view /\ txn' = FALSE
      BY <1>1, <1>2, <2>3, <3>1, <3>3 DEF CommitInv, Rest
    <3> QED
      BY <2>3, <3>2, <3>3 DEF EndTransaction, FailsForNow, Fails
  <2> QED
    BY <2>1, <2>2, <2>3 DEF InitStatement
<1>6. IdentityKept'
  BY <1>1, <1>2, <1>5 DEF IdentityKept, Rest
<1> QED
  BY <1>3, <1>4, <1>5, <1>6 DEF Rest

\* nodeIdentityLoad, its statement: rows that were found are read under the lock.
LEMMA LoadRest ==
    ASSUME WalletInv, nodeIdentityLoad
    PROVE  Rest'
<1> USE DEF Goto, Callers, Reading, Opened
<1>1. WalletTypeOK /\ Rest
  BY DEF WalletInv, Rest
<1>2. PICK place \in {"load", "reload"}, reading \in {"loading", "reloading"},
           failed \in {"create", "failed"} : LoadStatement(place, reading, failed)
  BY DEF nodeIdentityLoad
<1>3. /\ UNCHANGED <<disk, view, txn, crashes, arg, initCount, mNode, announced, told, lost>>
      /\ pc[Main] = place /\ mLock = NoThread
      /\ \A c \in Callers : pc'[c] = pc[c]
      /\ \/ pc'[Main] = failed /\ mLock' = NoThread
         \/ /\ pc'[Main] = reading /\ mLock' = Main /\ view.ids # <<>>
            /\ mCurrentStmt' = [owner |-> Main, rows |-> view.ids]
  BY ZenonT(40), <1>1, <1>2 DEF LoadStatement, Free, Fails, FailsForNow, Query, WalletTypeOK, Rest, LockInv
<1>4. \A c \in Callers : pc[c] = "idle"
  BY <1>1, <1>3 DEF WalletTypeOK, Rest, LockInv
<1>5. LockInv'
  BY <1>1, <1>3, <1>4 DEF LockInv
<1>6. CommitInv' /\ IdentityKept'
  BY <1>1, <1>3 DEF CommitInv, IdentityKept, Rest
<1>7. LoadedInv' /\ RowsCurrent'
  BY <1>3, <1>4 DEF LoadedInv, RowsCurrent
<1> QED
  BY <1>5, <1>6, <1>7 DEF Rest

\* The row that is loaded is the first identity.
LEMMA LoadRowRest ==
    ASSUME WalletInv, LoadRow
    PROVE  Rest'
<1> USE DEF Goto, Callers, Reading, Opened
<1>1. WalletTypeOK /\ Rest
  BY DEF WalletInv, Rest
<1>2. /\ UNCHANGED <<disk, view, txn, crashes, arg, initCount, announced, told, lost>>
      /\ pc[Main] \in {"loading", "reloading"} /\ pc'[Main] = "start" /\ mLock' = NoThread
      /\ \A c \in Callers : pc'[c] = pc[c]
      /\ mNode' = <<OfRow[CurrentRow]>>
  BY <1>1 DEF LoadRow, WalletTypeOK
<1>3. view.ids # <<>> /\ mCurrentStmt.rows = view.ids /\ mLock = Main
  BY <1>1, <1>2 DEF Rest, LoadedInv, RowsCurrent, LockInv
<1>4. CurrentRow = view.ids[1]
  BY <1>1, <1>3, IdsAreRows DEF CurrentRow
<1>5. \A c \in Callers : pc[c] = "idle"
  BY <1>1, <1>3 DEF WalletTypeOK, Rest, LockInv
<1>6. LockInv'
  BY <1>1, <1>2, <1>5 DEF LockInv
<1>7. CommitInv' /\ IdentityKept'
  BY <1>1, <1>2 DEF CommitInv, IdentityKept, Rest
<1>8. LoadedInv' /\ RowsCurrent'
  BY <1>2, <1>3, <1>4, <1>5 DEF LoadedInv, RowsCurrent
<1> QED
  BY <1>6, <1>7, <1>8 DEF Rest

\* A new identity comes behind those that are there.
LEMMA CreateRest ==
    ASSUME WalletInv, nodeIdentityCreate
    PROVE  Rest'
<1> USE DEF Goto, Callers, Reading, Opened
<1>1. WalletTypeOK /\ Rest
  BY DEF WalletInv, Rest
<1>2. /\ UNCHANGED <<mLock, crashes, arg, initCount, mNode, announced, told, lost>>
      /\ pc[Main] = "create" /\ pc'[Main] = "reload" /\ mLock = NoThread
      /\ \A c \in Callers : pc'[c] = pc[c]
  BY ZenonT(40), <1>1 DEF nodeIdentityCreate, Free, WalletTypeOK, Rest, LockInv
<1>3. \A c \in Callers : pc[c] = "idle"
  BY <1>1, <1>2 DEF WalletTypeOK, Rest, LockInv
<1>4. LockInv' /\ LoadedInv' /\ RowsCurrent'
  BY <1>1, <1>2, <1>3 DEF Rest, LockInv, LoadedInv, RowsCurrent
<1>5. CASE UNCHANGED <<disk, view, txn>>
  BY <1>1, <1>2, <1>4, <1>5 DEF Rest, CommitInv, IdentityKept
<1>6. ASSUME NEW k \in Identity, Change(Main, [view EXCEPT !.ids = Append(@, RowOf[k])])
      PROVE  CommitInv' /\ IdentityKept'
  <2>1. /\ view'.ids = Append(view.ids, RowOf[k]) /\ view'.data = view.data
        /\ txn' = txn /\ disk' = IF txn THEN disk ELSE view'
    BY <1>1, <1>6 DEF Change, WalletTypeOK, DbTypeOK, Tables
  <2>2. txn => lost
    BY <1>1, <1>2 DEF Rest, CommitInv
  <2>3. CommitInv'
    BY <1>1, <1>2, <2>1, <2>2 DEF Rest, CommitInv
  <2>4. view.ids # <<>> => view'.ids # <<>> /\ view'.ids[1] = view.ids[1]
    BY <1>1, <1>6, <2>1, IdsAreRows
  <2> QED
    BY <1>1, <1>2, <2>1, <2>2, <2>3, <2>4 DEF Rest, CommitInv, IdentityKept
<1> QED
  BY <1>4, <1>5, <1>6 DEF nodeIdentityCreate, Fails, FailsForNow, Rest

\* The node starts with the identity that it loaded.
LEMMA StartRest ==
    ASSUME WalletInv, StartUNL
    PROVE  Rest'
<1> USE DEF Goto, Callers, Reading, Opened
<1>1. WalletTypeOK /\ Rest
  BY DEF WalletInv, Rest
<1>2. /\ UNCHANGED <<dbVars, arg, initCount, mNode, told, lost>>
      /\ pc[Main] = "start" /\ pc'[Main] = "started" /\ announced' = announced \cup {mNode[1]}
      /\ \A c \in Callers : pc'[c] = pc[c]
  BY <1>1 DEF StartUNL, WalletTypeOK
<1>3. LockInv' /\ LoadedInv'
  BY <1>1, <1>2 DEF Rest, LockInv, LoadedInv, dbVars
<1>4. CommitInv'
  BY <1>1, <1>2 DEF Rest, CommitInv, dbVars
<1>5. RowsCurrent'
  BY <1>1, <1>2 DEF Rest, RowsCurrent, dbVars
<1>6. view.ids # <<>> /\ mNode[1] = OfRow[view.ids[1]] /\ (~lost => view.ids = disk.ids)
  BY <1>1, <1>2 DEF Rest, LoadedInv, CommitInv
<1>7. IdentityKept'
  BY <1>1, <1>2, <1>6 DEF Rest, IdentityKept, dbVars
<1> QED
  BY <1>3, <1>4, <1>5, <1>7 DEF Rest

\* dataStore and dataDelete: whoever reads, waits or has read, nobody reads now.
LEMMA DataRest ==
    ASSUME WalletInv, NEW t \in Callers, NEW k \in Text, NEW value \in Text \cup {NoValue},
           DataChange(t, k, value)
    PROVE  Rest'
<1> USE DEF Callers, Reading, Opened
<1>1. WalletTypeOK /\ Rest
  BY DEF WalletInv, Rest
<1>2. /\ UNCHANGED <<mLock, crashes, pc, arg, initCount, mNode, announced, lost>>
      /\ mLock = NoThread /\ Opened
  BY <1>1 DEF DataChange, Free, Rest, LockInv
<1>3. \A u \in Thread : pc[u] \notin Reading
  BY <1>1, <1>2 DEF Rest, LockInv
<1>4. LockInv' /\ RowsCurrent'
  BY <1>1, <1>2, <1>3 DEF Rest, LockInv, RowsCurrent
<1>5. CASE UNCHANGED <<disk, view, txn, told>>
  BY <1>1, <1>2, <1>4, <1>5 DEF Rest, CommitInv, LoadedInv, IdentityKept
<1>6. CASE /\ Change(t, [view EXCEPT !.data[Stored(k)] = Stored(value)])
           /\ told' = [told EXCEPT ![k] = value]
  <2>1. Stored(k) = k /\ Stored(value) = value
    BY StoredAsGiven
  <2>2. /\ view'.ids = view.ids /\ view'.data = [view.data EXCEPT ![k] = value]
        /\ txn' = txn /\ disk' = IF txn THEN disk ELSE view'
    BY <1>1, <1>6, <2>1 DEF Change, WalletTypeOK, DbTypeOK, Tables
  <2>3. txn => lost
    BY <1>1, <1>2 DEF Rest, CommitInv
  <2>4. CommitInv'
    BY <1>1, <1>2, <1>6, <2>2, <2>3 DEF Rest, CommitInv
  <2>5. LoadedInv' /\ IdentityKept'
    BY <1>1, <1>2, <2>2, <2>3 DEF Rest, CommitInv, LoadedInv, IdentityKept
  <2> QED
    BY <1>4, <2>4, <2>5 DEF Rest
<1> QED
  BY <1>5, <1>6 DEF DataChange, Fails, FailsForNow

\* A query leaves a thread either where it was, or reading under the lock.
LEMMA StartReadFacts ==
    ASSUME WalletInv, NEW t \in Callers, NEW rows \in Seq(Row), NEW reading \in {"fetching", "each"},
           StartRead(t, rows, reading)
    PROVE  /\ UNCHANGED <<disk, view, txn>>
           /\ mLock = NoThread /\ \A u \in Thread : pc[u] \notin Reading
           /\ Opened
           /\ \/ UNCHANGED <<pc, mLock>>
              \/ /\ pc' = [pc EXCEPT ![t] = reading] /\ mLock' = t
                 /\ mCurrentStmt' = [owner |-> t, rows |-> rows] /\ rows # <<>>
<1>1. Rest
  BY DEF WalletInv, Rest
<1>2. mLock = NoThread
  BY <1>1 DEF StartRead, Free, Rest, LockInv, Reading, Callers
<1>3. \A u \in Thread : pc[u] \notin Reading
  BY <1>1, <1>2 DEF Rest, LockInv
<1> QED
  BY <1>2, <1>3 DEF StartRead, Query, Fails, FailsForNow, Goto

\* The reading of other threads starts only when nobody reads.
LEMMA StartReadRest ==
    ASSUME WalletInv, NEW t \in Callers, dataFetch(t) \/ ForEach(t)
    PROVE  Rest'
<1>1. WalletTypeOK /\ Rest
  BY DEF WalletInv, Rest
<1>2. ASSUME NEW rows \in Seq(Row), NEW reading \in {"fetching", "each"}, StartRead(t, rows, reading),
             UNCHANGED <<crashes, initCount, mNode, announced, told, lost>>
      PROVE  LockInv' /\ CommitInv' /\ LoadedInv' /\ IdentityKept'
  <2>1. pc'[Main] = pc[Main]
    BY <1>1, <1>2, StartReadFacts DEF Callers, WalletTypeOK
  <2>2. LockInv'
    BY <1>1, <1>2, <2>1, StartReadFacts DEF Rest, LockInv, WalletTypeOK, Reading, Opened, Callers
  <2>3. CommitInv' /\ LoadedInv' /\ IdentityKept'
    BY <1>1, <1>2, <2>1, StartReadFacts DEF Rest, CommitInv, LoadedInv, IdentityKept
  <2> QED
    BY <2>2, <2>3
<1>3. CASE ForEach(t)
  <2>1. StartRead(t, view.ids, "each") /\ view.ids \in Seq(Row)
        /\ UNCHANGED <<arg, crashes, initCount, mNode, announced, told, lost>>
    BY <1>1, <1>3, IdsAreRows DEF ForEach
  <2>2. RowsCurrent'
    BY <1>1, <2>1, StartReadFacts DEF RowsCurrent, Reading, Callers, WalletTypeOK
  <2> QED
    BY <1>2, <2>1, <2>2 DEF Rest
<1>4. CASE dataFetch(t)
  <2>1. PICK k \in Text :
            /\ LET value == view.data[Stored(k)] IN
               StartRead(t, IF value = NoValue THEN <<>> ELSE <<value>>, "fetching")
            /\ arg' = IF mLock' = t THEN [arg EXCEPT ![t] = k] ELSE arg
    BY <1>4 DEF dataFetch
  <2>2. UNCHANGED <<crashes, initCount, mNode, announced, told, lost>>
    BY <1>4 DEF dataFetch
  <2> DEFINE value == view.data[k]
             rows == IF value = NoValue THEN <<>> ELSE <<value>>
  <2>3. StartRead(t, rows, "fetching")
    BY <2>1, StoredAsGiven
  <2>4. value \in Text \cup {NoValue}
    BY <1>1 DEF WalletTypeOK, DbTypeOK, Tables
  <2>5. rows \in Seq(Row)
    <3>1. CASE value = NoValue
      BY <3>1, EmptySeq
    <3>2. CASE value # NoValue
      <4>1. value \in Row
        BY <2>4, <3>2 DEF Row
      <4> HIDE DEF value
      <4> QED
        BY <3>2, <4>1
    <3> QED
      BY <3>1, <3>2
  <2>6. rows # <<>> => rows = <<value>> /\ value # NoValue
    OBVIOUS
  <2>7. RowsCurrent'
    <3> HIDE DEF rows
    <3>1. CASE UNCHANGED <<pc, mLock>>
      BY <2>3, <2>5, <3>1, StartReadFacts DEF RowsCurrent, Reading, Callers
    <3>2. CASE pc' = [pc EXCEPT ![t] = "fetching"] /\ mLock' = t
               /\ mCurrentStmt' = [owner |-> t, rows |-> rows] /\ rows # <<>>
      <4>1. arg'[t] = k /\ view' = view /\ told' = told /\ lost' = lost
        <5>1. arg' = [arg EXCEPT ![t] = k]
          BY <2>1, <3>2
        <5>2. arg \in [Thread -> Text \cup {NoValue}]
          BY <1>1 DEF WalletTypeOK
        <5>3. view' = view
          BY <2>3, <2>5, StartReadFacts
        <5> QED
          BY <2>2, <5>1, <5>2, <5>3 DEF Callers
      <4>2. ~lost => view.data = told
        BY <1>1 DEF Rest, CommitInv
      <4>3. \A u \in Thread : pc'[u] \in Reading => u = t /\ pc'[u] = "fetching"
        BY <1>1, <2>3, <2>5, <3>2, StartReadFacts DEF WalletTypeOK
      <4>4. /\ mCurrentStmt'.owner = t /\ mCurrentStmt'.rows = <<view'.data[arg'[t]]>>
            /\ ~lost' => view'.data[arg'[t]] = told'[arg'[t]] /\ told'[arg'[t]] # NoValue
        BY <2>6, <3>2, <4>1, <4>2
      <4> QED
        BY <4>3, <4>4 DEF RowsCurrent, Reading, Callers
    <3> QED
      BY <2>3, <2>5, <3>1, <3>2, StartReadFacts
  <2> HIDE DEF rows
  <2> QED
    BY <1>2, <2>2, <2>3, <2>5, <2>7 DEF Rest
<1> QED
  BY <1>3, <1>4

\* dataFetch has read its row.
LEMMA FetchRowRest ==
    ASSUME WalletInv, NEW t \in Callers, FetchRow(t)
    PROVE  Rest'
<1> USE DEF Goto, Callers, Reading, Opened
<1>1. WalletTypeOK /\ Rest
  BY DEF WalletInv, Rest
<1>2. /\ UNCHANGED <<disk, view, txn, crashes, initCount, mNode, announced, told, lost>>
      /\ pc[t] = "fetching" /\ pc' = [pc EXCEPT ![t] = "idle"] /\ mLock' = NoThread
  BY DEF FetchRow
<1>3. mLock = t /\ pc'[Main] = pc[Main]
  BY <1>1, <1>2 DEF Rest, LockInv, WalletTypeOK
<1>4. \A u \in Thread : pc'[u] \notin Reading /\ (u # t => pc'[u] = pc[u])
  BY <1>1, <1>2, <1>3 DEF Rest, LockInv, WalletTypeOK
<1>5. LockInv' /\ RowsCurrent'
  BY <1>1, <1>2, <1>3, <1>4 DEF Rest, LockInv, RowsCurrent, WalletTypeOK
<1>6. CommitInv' /\ LoadedInv' /\ IdentityKept'
  BY <1>1, <1>2, <1>3 DEF Rest, CommitInv, LoadedInv, IdentityKept
<1> QED
  BY <1>5, <1>6 DEF Rest

\* A row is left when there was more than one.
LEMMA TailNotEmpty ==
    ASSUME NEW S, NEW rows \in Seq(S), ~(Len(rows) <= 1)
    PROVE  Tail(rows) # <<>>
<1>1. ASSUME NEW m \in Nat, ~(m <= 1) PROVE m - 1 # 0 /\ m # 0
  BY <1>1
<1>2. Len(rows) \in Nat /\ Len(<<>>) = 0
  BY LenProperties, EmptySeq
<1>3. Len(rows) # 0 /\ Len(rows) - 1 # 0
  BY <1>1, <1>2
<1>4. rows # <<>>
  BY <1>2, <1>3, Zenon
<1>5. Len(Tail(rows)) = Len(rows) - 1
  BY <1>4, HeadTailProperties, Zenon
<1> QED
  BY <1>2, <1>3, <1>5, Zenon

\* A loop goes to its next row, or is done and lets the lock go.
LEMMA ForEachNextRest ==
    ASSUME WalletInv, NEW t \in Callers, ForEachNext(t)
    PROVE  Rest'
<1> USE DEF Goto, Callers, Reading, Opened
<1>1. WalletTypeOK /\ Rest
  BY DEF WalletInv, Rest
<1>2. /\ UNCHANGED <<disk, view, txn, crashes, arg, initCount, mNode, announced, told, lost>>
      /\ pc[t] = "each" /\ mCurrentStmt' = getNextRow
  BY DEF ForEachNext
<1>3. mLock = t /\ mCurrentStmt.owner = t /\ mCurrentStmt.rows # <<>>
      /\ mCurrentStmt \in [owner : Thread \cup {NoThread}, rows : Seq(Row)]
  BY <1>1, <1>2 DEF Rest, LockInv, RowsCurrent, WalletTypeOK, DbTypeOK
<1>4. \A u \in Thread : u # t => pc[u] \notin Reading
  BY <1>1, <1>3 DEF Rest, LockInv
<1>5. pc'[Main] = pc[Main]
  BY <1>1 DEF ForEachNext, WalletTypeOK
<1>6. CommitInv' /\ LoadedInv' /\ IdentityKept'
  BY <1>1, <1>2, <1>5 DEF Rest, CommitInv, LoadedInv, IdentityKept
<1>7. CASE Len(mCurrentStmt.rows) <= 1
  <2>1. pc' = [pc EXCEPT ![t] = "idle"] /\ mLock' = NoThread
    BY <1>7 DEF ForEachNext
  <2>2. \A u \in Thread : pc'[u] \notin Reading
    BY <1>1, <1>4, <2>1 DEF WalletTypeOK
  <2> QED
    BY <1>1, <1>2, <1>5, <1>6, <2>1, <2>2 DEF Rest, LockInv, RowsCurrent, WalletTypeOK
<1>8. CASE ~(Len(mCurrentStmt.rows) <= 1)
  <2>1. UNCHANGED <<pc, mLock>>
    BY <1>8 DEF ForEachNext
  <2>2. mCurrentStmt'.owner = t /\ mCurrentStmt'.rows = Tail(mCurrentStmt.rows)
    BY <1>2, <1>3 DEF getNextRow
  <2>3. Tail(mCurrentStmt.rows) # <<>>
    BY <1>3, <1>8, TailNotEmpty
  <2>4. LockInv'
    BY <1>1, <2>1 DEF Rest, LockInv
  <2>5. RowsCurrent'
    BY <1>2, <1>4, <2>1, <2>2, <2>3 DEF RowsCurrent
  <2> QED
    BY <1>6, <2>4, <2>5 DEF Rest
<1> QED
  BY <1>7, <1>8

\* After a crash the tables are what the disk holds.
LEMMA CrashRest ==
    ASSUME WalletInv, Crash
    PROVE  Rest'
<1> USE DEF Callers, Reading, Opened
<1>1. WalletTypeOK /\ Rest
  BY DEF WalletInv, Rest
<1>2. /\ disk' = disk /\ view' = disk /\ txn' = FALSE /\ mLock' = NoThread
      /\ UNCHANGED <<initCount, announced, told, lost>>
  BY DEF Crash, DbCrash
<1>3. pc'[Main] = "off" /\ \A c \in Callers : pc'[c] = "idle"
  BY DEF Crash
<1>4. LockInv' /\ LoadedInv' /\ RowsCurrent'
  BY <1>2, <1>3 DEF LockInv, LoadedInv, RowsCurrent
<1>5. CommitInv' /\ IdentityKept'
  BY <1>1, <1>2 DEF Rest, CommitInv, IdentityKept
<1> QED
  BY <1>4, <1>5 DEF Rest

-------------------------------------------------------------------------------
(* The theorems.                                                           *)

\* The invariant holds in the first state and every step keeps it.
THEOREM WalletInvariant == WalletSpec => []WalletInv
<1>1. ASSUME WalletInit PROVE WalletInv
  <2> USE <1>1 DEF WalletInit, DbInit
  <2>1. NoTables \in Tables
    BY EmptySeq DEF NoTables, Tables
  <2>2. NoStmt \in [owner : Thread \cup {NoThread}, rows : Seq(Row)]
    BY EmptyStatement DEF NoStmt
  <2>3. DbTypeOK
    BY <2>1, <2>2, Zenon DEF DbTypeOK
  <2>4. WalletTypeOK
    BY <2>3 DEF WalletTypeOK, NoIdentity, MainPlaces, Callers
  <2>5. LockInv /\ LoadedInv /\ RowsCurrent
    BY DEF LockInv, LoadedInv, RowsCurrent, Reading, Callers, Opened
  <2>6. CommitInv /\ IdentityKept
    BY DEF CommitInv, IdentityKept, NoTables
  <2> QED
    BY <2>4, <2>5, <2>6 DEF WalletInv
<1>2. ASSUME WalletInv, [WalletNext]_allVars PROVE WalletInv'
  <2>1. WalletTypeOK'
    BY <1>2, TypeStep
  <2>2. Rest'
    <3>1. ASSUME NEW t \in Callers, dataStore(t) \/ dataDelete(t) PROVE Rest'
      BY <1>2, <3>1, DataRest DEF dataStore, dataDelete
    <3>2. CASE UNCHANGED allVars
      <4>1. Rest
        BY <1>2 DEF WalletInv, Rest
      <4> QED
        BY <3>2, <4>1 DEF allVars, dbVars, walletVars, Rest, LockInv, CommitInv, LoadedInv,
                          IdentityKept, RowsCurrent, Opened
    <3> QED
      BY <1>2, <3>1, <3>2, OpenRest, InitRest, LoadRest, LoadRowRest, CreateRest, StartRest,
         StartReadRest, FetchRowRest, ForEachNextRest, CrashRest DEF WalletNext
  <2> QED
    BY <2>1, <2>2 DEF Rest, WalletInv
<1> QED
  BY <1>1, <1>2, PTL DEF WalletSpec

\* The variables keep their types, the identity that is loaded included.
THEOREM WalletTypeCorrect == WalletSpec => []WalletTypeOK
<1>1. WalletInv => WalletTypeOK
  BY DEF WalletInv
<1> QED
  BY <1>1, WalletInvariant, PTL

\* All starts of the node announce one identity, the first on the disk, unless
\* a transaction could not be committed (Wallet::start, nodeIdentityLoad).
THEOREM IdentityIsKept == WalletSpec => []IdentityKept
<1>1. WalletInv => IdentityKept
  BY DEF WalletInv
<1> QED
  BY <1>1, WalletInvariant, PTL

\* Rows that are being read are those of the reader's own statement, and what
\* dataFetch returns was last reported stored (ScopedLock, mCurrentStmt).
THEOREM RowsAreCurrent == WalletSpec => []RowsCurrent
<1>1. WalletInv => RowsCurrent
  BY DEF WalletInv
<1> QED
  BY <1>1, WalletInvariant, PTL
===============================================================================
