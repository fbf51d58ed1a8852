-------------------------------- MODULE Base58 --------------------------------
(***************************************************************************)
(* The texts of keys (shared/base58.h): bytes, most significant first,     *)
(* written in base 58 behind a version byte and before four check bytes.   *)
(*                                                                         *)
(* A text is a sequence of characters.  A character of pszBase58 is its    *)
(* place there, 0..57; the numbers from 58 on are the other characters     *)
(* that the program tells apart, and from 1000 on whole words (Rfc1751).   *)
(* The big numbers of OpenSSL are sequences of bytes without leading zero. *)
(***************************************************************************)
EXTENDS Bytes, SequencesExt

Space == 58
NewLine == 59
CarriageReturn == 60
Sharp == 61
OpenBracket == 62
CloseBracket == 63
Other == 64

\* The characters for which isspace is true.
Spaces == {Space, NewLine, CarriageReturn}

\* The longest prefix of s of elements of the set some, and the place behind it.
Stop(s, some) == Min({Len(s) + 1} \cup {i \in 1..Len(s) : s[i] \notin some})

Leading(s, some) == SubSeq(s, 1, Stop(s, some) - 1)

\* The rest of s behind that prefix.
Behind(s, some) == SubSeq(s, Stop(s, some), Len(s))

Trimmed(number) == Behind(number, {0})

-------------------------------------------------------------------------------
(* Big numbers.                                                            *)

\* BN_div by 58, a byte at a time: the quotient so far and what remains.
DivideByte(high, byte) ==
    LET n == 256 * high[2] + byte IN <<Append(high[1], n \div 58), n % 58>>

Quotient(high) == <<Trimmed(high[1]), high[2]>>

Divided(number) ==
    LET high[i \in 0..Len(number)] ==
            IF i = 0 THEN <<<<>>, 0>> ELSE DivideByte(high[i - 1], number[i])
    IN Quotient(high[Len(number)])

\* BN_mul by 58, and a digit added: what is carried, and the bytes behind it.
MultiplyByte(low, byte) ==
    LET n == 58 * byte + low[1] IN <<n \div 256, <<n % 256>> \o low[2]>>

WithCarry(low) == Trimmed(<<low[1]>>) \o low[2]

Extended(number, digit) ==
    LET low[i \in 0..Len(number)] ==
            IF i = 0 THEN <<digit, <<>>>>
            ELSE MultiplyByte(low[i - 1], number[Len(number) + 1 - i])
    IN WithCarry(low[Len(number)])

-------------------------------------------------------------------------------
(* Encoding.                                                               *)

\* One round of the loop: what is left of the number, and the digits so far.
WithDigit(divided, digits) == <<divided[1], <<divided[2]>> \o digits>>

NextDigit(left) ==
    IF left[1] = <<>> THEN left ELSE WithDigit(Divided(left[1]), left[2])

\* Two divisions take a byte from the number, so as many rounds end it.
Digits58(number) ==
    LET left[i \in 0..(2 * Len(number))] ==
            IF i = 0 THEN <<number, <<>>>> ELSE NextDigit(left[i - 1])
    IN left[2 * Len(number)][2]

Number58(digits) ==
    LET number[i \in 0..Len(digits)] ==
            IF i = 0 THEN <<>> ELSE Extended(number[i - 1], digits[i])
    IN number[Len(digits)]

\* Every leading zero byte is a leading digit 0.
EncodeBase58(bytes) == Leading(bytes, {0}) \o Digits58(Trimmed(bytes))

NotDecoded == <<-1>>

\* Fault: the zero bytes in front are not restored.
WithoutZeros(digits, rest) ==
    IF Behind(rest, Spaces) # <<>> THEN NotDecoded ELSE Number58(digits)

\* The bytes of digits, unless more than spaces stand behind them.
WithZeros(digits, rest) ==
    IF Behind(rest, Spaces) # <<>> THEN NotDecoded
    ELSE Leading(digits, {0}) \o Number58(digits)

\* Spaces may stand on both sides of the digits, and nothing else.
DecodeBody(body) == WithZeros(Leading(body, 0..57), Behind(body, 0..57))

DecodeBase58(text) == DecodeBody(Behind(text, Spaces))

\* SHA256Hash, of which four bytes are used: a stand-in for it.
Rolling(bytes, factor, modulus) ==
    LET hash[i \in 0..Len(bytes)] ==
            IF i = 0 THEN factor
            ELSE (factor * hash[i - 1] + bytes[Len(bytes) + 1 - i] + 7) % modulus
    IN hash[Len(bytes)]

CheckOf(a, b) == <<a \div 256, a % 256, b \div 256, b % 256>>

Check(bytes) == CheckOf(Rolling(bytes, 31, 65521), Rolling(bytes, 131, 65519))

EncodeBase58Check(bytes) == EncodeBase58(bytes \o Check(bytes))

\* Fault: the check bytes are not compared.
CheckedNot(bytes) == IF Len(bytes) < 4 THEN <<>> ELSE SubSeq(bytes, 1, Len(bytes) - 4)

\* The bytes before the last four, if those are their check bytes.
Checked(bytes) ==
    LET n == Len(bytes) - 4 IN
    IF n >= 0 /\ SubSeq(bytes, n + 1, n + 4) = Check(SubSeq(bytes, 1, n))
    THEN SubSeq(bytes, 1, n) ELSE <<>>

DecodeBase58Check(text) == Checked(DecodeBase58(text))

-------------------------------------------------------------------------------
(* CBase58Data: <<nVersion, vchData>>.                                     *)

\* After SetString with a text that does not fit.
Cleared == <<1, <<>>>>

SetData(version, data) == <<version, data>>

\* ToString.
AsString(b58) == EncodeBase58Check(<<b58[1]>> \o b58[2])

\* SetString, when bytes is what the text decodes to: what it leaves in the
\* object, and whether that is what the text says.
SetDecoded(bytes, version) ==
    IF bytes # <<>> /\ bytes[1] = version
    THEN [ok |-> TRUE, b58 |-> <<version, Tail(bytes)>>]
    ELSE [ok |-> FALSE, b58 |-> Cleared]

SetString(text, version) == SetDecoded(DecodeBase58Check(text), version)

\* CompareTo: versions first, then the bytes as vectors.
BytesLess(s, t) ==
    \E n \in 0..Len(s) :
        /\ n < Len(t) /\ SubSeq(s, 1, n) = SubSeq(t, 1, n)
        /\ n = Len(s) \/ s[n + 1] < t[n + 1]

CompareTo(a, b) ==
    CASE a[1] < b[1] \/ (a[1] = b[1] /\ BytesLess(a[2], b[2])) -> -1
      [] a = b -> 0
      [] OTHER -> 1
===============================================================================
