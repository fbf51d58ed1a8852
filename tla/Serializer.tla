------------------------------ MODULE Serializer ------------------------------
(***************************************************************************)
(* The byte buffer of shared/Serializer: numbers with the most significant *)
(* byte first, and byte strings with a variable-length prefix.             *)
(*                                                                         *)
(* A buffer is a sequence of bytes and an offset counts from zero.  A read *)
(* that fails (it returns false or throws) is Failed.                      *)
(***************************************************************************)
EXTENDS Bytes

Failed == [ok |-> FALSE]

Got(v) == [ok |-> TRUE, value |-> v]

-------------------------------------------------------------------------------
(* Numbers.                                                                *)

add8(data, byte) == data \o << byte >>

add16(data, i) == data \o << Shr8(i) % 256, i % 256 >>

add32(data, i) ==
    data \o << Shr8(Shr8(Shr8(i))) % 256, Shr8(Shr8(i)) % 256, Shr8(i) % 256, i % 256 >>

\* The bytes of the high and of the low half.
add64(data, i) == add32(add32(data, Shr8(Shr8(Shr8(Shr8(i))))), i)

get8(data, offset) ==
    IF offset >= Len(data) THEN Failed ELSE Got(data[offset + 1])

get16(data, offset) ==
    IF offset + 2 > Len(data) THEN Failed
    ELSE Got(data[offset + 1] * 256 + data[offset + 2])

get32(data, offset) ==
    IF offset + 4 > Len(data) THEN Failed
    ELSE Got(((data[offset + 1] * 256 + data[offset + 2]) * 256
              + data[offset + 3]) * 256 + data[offset + 4])

get64(data, offset) ==
    IF offset + 8 > Len(data) THEN Failed
    ELSE Got(get32(data, offset).value * (256 * 256 * 256 * 256)
             + get32(data, offset + 4).value)

\* Also add128, add160 and add256, which are copied as they are.
addRaw(data, vector) == data \o vector

getRaw(data, offset, length) ==
    IF offset + length > Len(data) THEN Failed
    ELSE Got(SubSeq(data, offset + 1, offset + length))

-------------------------------------------------------------------------------
(* Byte strings.                                                           *)

\* The longest string a prefix can tell.
MaxVL == 918744

\* The prefix for a length: one, two or three bytes.
encodeVL(length) ==
    IF length <= 192 THEN << length >>
    ELSE IF length <= 12480
    THEN << 193 + Shr8(length - 193), (length - 193) % 256 >>
    ELSE << 241 + Shr8(Shr8(length - 12481)),
            Shr8(length - 12481) % 256, (length - 12481) % 256 >>

\* How long the prefix will be, or 0 where the code throws.  The last test is
\* the wrong way round in the code: it throws for all lengths that take three
\* bytes but the longest.
encodeLengthLength(length) ==
    IF length <= 192 THEN 1
    ELSE IF length <= 12480 THEN 2
    ELSE IF length >= 918744 THEN 3
    ELSE 0

\* How long a prefix is, by its first byte; 0 where the code throws.
decodeLengthLength(b1) ==
    IF b1 <= 192 THEN 1 ELSE IF b1 <= 240 THEN 2 ELSE IF b1 <= 254 THEN 3 ELSE 0

\* decodeVLLength of one, two and three bytes.
decodeVLLength1(b1) == b1
decodeVLLength2(b1, b2) == 193 + (b1 - 193) * 256 + b2
decodeVLLength3(b1, b2, b3) == 12481 + (b1 - 241) * 65536 + b2 * 256 + b3

\* The length of the string at offset.
getVLLength(data, offset) ==
    LET lenLen == decodeLengthLength(data[offset + 1])
    IN IF offset >= Len(data) THEN Failed
       ELSE IF lenLen = 0 \/ offset + lenLen > Len(data) THEN Failed
       ELSE IF lenLen = 1 THEN Got(decodeVLLength1(data[offset + 1]))
       ELSE IF lenLen = 2 THEN Got(decodeVLLength2(data[offset + 1], data[offset + 2]))
       ELSE Got(decodeVLLength3(data[offset + 1], data[offset + 2], data[offset + 3]))

\* The buffer when addVL comes to its assertion.
addVL(data, vector) == addRaw(addRaw(data, encodeVL(Len(vector))), vector)

\* The assertion at the end of addVL, on the size of the buffer before (ret),
\* of the string and of the buffer after; a throw is no value.
addVLAssertion(data, vector) ==
    /\ encodeLengthLength(Len(vector)) # 0
    /\ Len(addVL(data, vector))
        = Len(data) + Len(vector) + encodeLengthLength(Len(vector))

\* The string at offset.
getVL(data, offset) ==
    LET datLen == getVLLength(data, offset)
        lenLen == decodeLengthLength(data[offset + 1])
    IN IF ~datLen.ok THEN Failed ELSE getRaw(data, offset + lenLen, datLen.value)

\* The bytes getVL says the string takes, for the caller to skip.
getVLSkip(data, offset) ==
    decodeLengthLength(data[offset + 1]) + getVLLength(data, offset).value
===============================================================================
