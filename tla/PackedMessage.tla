---------------------------- MODULE PackedMessage ----------------------------
(***************************************************************************)
(* Packed messages (shared/PackedMessage): a header of four length bytes   *)
(* and two type bytes, most significant first, before the serialised       *)
(* message.  The serialisation itself is the protobuf library's; a message *)
(* here is its type and the bytes it serialises to.                        *)
(***************************************************************************)
EXTENDS Bytes

HEADER_SIZE == 6

\* Fault: the length bytes are written least significant first.
encodeHeaderSwapped(size, type) ==
    << size % 256, Shr8(size) % 256, Shr8(Shr8(size)) % 256,
       Shr8(Shr8(Shr8(size))) % 256,
       Shr8(type) % 256, type % 256 >>

\* "(x >> 8 * k) & 0xFF" for every byte of the header.
encodeHeader(size, type) ==
    << Shr8(Shr8(Shr8(size))) % 256, Shr8(Shr8(size)) % 256,
       Shr8(size) % 256, size % 256,
       Shr8(type) % 256, type % 256 >>

\* The constructor: header and body.
Pack(type, body) == encodeHeader(Len(body), type) \o body

\* The bytes or-ed together, in 32 bits.
getLength(buf) ==
    IF Len(buf) < HEADER_SIZE THEN 0
    ELSE ((buf[1] * 256 + buf[2]) * 256 + buf[3]) * 256 + buf[4]

getType(buf) ==
    IF Len(buf) < HEADER_SIZE THEN 0
    ELSE buf[5] * 256 + buf[6]
===============================================================================
