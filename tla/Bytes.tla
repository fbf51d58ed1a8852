-------------------------------- MODULE Bytes --------------------------------
(***************************************************************************)
(* Bytes, of which messages, serialised objects and keys are sequences.    *)
(***************************************************************************)
EXTENDS Integers, Sequences

Byte == 0..255

\* x >> 8
Shr8(x) == x \div 256
===============================================================================
