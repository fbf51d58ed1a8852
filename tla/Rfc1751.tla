------------------------------- MODULE Rfc1751 -------------------------------
(***************************************************************************)
(* Keys as English words (shared/rfc1751.cpp).                             *)
(*                                                                         *)
(* pcDict holds 2048 words: 571 of up to three letters, then those of four *)
(* letters, both parts in alphabetical order.  A word is a character from  *)
(* 1000 on: Word(n, length) is the word of the dictionary at n / 2 when n  *)
(* is even, and one that falls between two of them when n is odd.          *)
(***************************************************************************)
EXTENDS Base58

Short == 571          \* words of up to three letters

Word(n, length) == 1000 + (10 * n) + length

IsWord(c) == c >= 1000

Rank(c) == (c - 1000) \div 10

pcDict(i) == Word(2 * i, IF i < Short THEN 3 ELSE 4)

LettersOf(c) == IF IsWord(c) THEN (c - 1000) % 10 ELSE 1

\* The number of letters of a piece of a text.
Letters(piece) ==
    LET sum[i \in 0..Len(piece)] == IF i = 0 THEN 0 ELSE sum[i - 1] + LettersOf(piece[i])
    IN sum[Len(piece)]

-------------------------------------------------------------------------------
(* Bits.  The buffer of the code is the sequence of its bits.              *)

\* The n low bits of a number, which is halved n times.
LowBits(high, n) == [i \in 1..n |-> high[n - i] % 2]

BitsOf(number, n) ==
    LET high[i \in 0..n] == IF i = 0 THEN number ELSE high[i - 1] \div 2
    IN LowBits(high, n)

\* extract: length bits from the bit start on, as a number.
extract(bits, start, length) ==
    LET x[i \in 0..length] == IF i = 0 THEN 0 ELSE (2 * x[i - 1]) + bits[start + i]
    IN x[length]

\* What insert makes of numbers of n bits each, one behind the other.
Joined(numbers, n) ==
    [i \in 1..(n * Len(numbers)) |->
        BitsOf(numbers[((i - 1) \div n) + 1], n)[((i - 1) % n) + 1]]

\* The groups of two bits of eight bytes, added up.
Parity(bits) ==
    LET p[i \in 0..32] == IF i = 0 THEN 0 ELSE p[i - 1] + extract(bits, 2 * (i - 1), 2)
    IN p[32] % 4

\* The bits of eight bytes with their parity behind them.
WithParity(bits) == bits \o BitsOf(Parity(bits), 2)

\* The bits as six words with spaces between them.
Words(bits) ==
    [i \in 1..11 |-> IF i % 2 = 0 THEN Space
                     ELSE pcDict(extract(bits, 11 * (i \div 2), 11))]

btoe(bytes) == Words(WithParity(Joined(bytes, 8)))

key2eng(bytes) == btoe(SubSeq(bytes, 1, 8)) \o <<Space>> \o btoe(SubSeq(bytes, 9, 16))

-------------------------------------------------------------------------------
(* Reading.                                                                *)

\* One round of the binary search of a word in the dictionary, from range[1]
\* up to, not including, range[2].
iMid(range) == range[1] + ((range[2] - range[1]) \div 2)

Narrowed(word, range) ==
    IF range[1] = range[2] \/ Rank(word) = 2 * iMid(range) THEN range
    ELSE IF Rank(word) < 2 * iMid(range) THEN <<range[1], iMid(range)>>
    ELSE <<iMid(range) + 1, range[2]>>

\* The place at which the search has ended, or -1.
Found(word, range) ==
    IF range[1] # range[2] /\ Rank(word) = 2 * iMid(range) THEN iMid(range) ELSE -1

\* wsrch: eleven rounds leave nothing of the dictionary.
wsrch(word, iMin, iMax) ==
    LET range[i \in 0..11] == IF i = 0 THEN <<iMin, iMax>> ELSE Narrowed(word, range[i - 1])
    IN Found(word, range[11])

\* standard should correct capitals and digits, but works on copies of the
\* letters and changes nothing.
standard(piece) == piece

\* What etob finds for a word of n letters: its number, or the result it
\* returns.  The ranges leave out 570, the last of the short words.
Looked(piece, n) ==
    LET found == IF Len(piece) = 1 /\ IsWord(piece[1])
                 THEN wsrch(piece[1], IF n < 4 THEN 0 ELSE Short, IF n < 4 THEN Short - 1 ELSE 2048)
                 ELSE -1
    IN IF n > 4 \/ n < 1 THEN [rc |-> -1]
       ELSE IF found < 0 THEN [rc |-> 0] ELSE [rc |-> 1, n |-> found]

\* The eight bytes of 66 bits whose last two are the parity of the others.
FromBits(bits) ==
    IF extract(bits, 64, 2) # Parity(SubSeq(bits, 1, 64)) THEN [rc |-> -2]
    ELSE [rc |-> 1, key |-> [i \in 1..8 |-> extract(bits, 8 * (i - 1), 8)]]

\* The first word that is bad decides.
FromWords(looked) ==
    LET bad == {i \in 1..6 : looked[i].rc # 1} IN
    IF bad # {} THEN [rc |-> looked[Min(bad)].rc]
    ELSE FromBits(Joined([i \in 1..6 |-> looked[i].n], 11))

\* Six words: eight bytes, or the reason why not.
etob(words) == FromWords([i \in 1..6 |-> Looked(standard(words[i]), Letters(words[i]))])

\* The characters of words.
Letter == Nat \ Spaces

\* One more piece of a text: the pieces so far, and what is left of the text.
TakePiece(pieces, body) == <<Append(pieces, Leading(body, Letter)), Behind(body, Letter)>>

NextPiece(split) ==
    IF Behind(split[2], Spaces) = <<>> THEN split
    ELSE TakePiece(split[1], Behind(split[2], Spaces))

\* The pieces of a text between its spaces (trim, split).
Pieces(text) ==
    LET split[i \in 0..Len(text)] == IF i = 0 THEN <<<<>>, text>> ELSE NextPiece(split[i - 1])
    IN split[Len(text)][1]

\* Both halves of a key, or what is wrong with the first that is bad.
Halves(first, second) ==
    IF first.rc # 1 THEN first
    ELSE IF second.rc # 1 THEN second
    ELSE [rc |-> 1, key |-> first.key \o second.key]

FromPieces(words) ==
    IF Len(words) # 12 THEN [rc |-> -1]
    ELSE Halves(etob(SubSeq(words, 1, 6)), etob(SubSeq(words, 7, 12)))

\* 1: the key; 0: a word that is not known; -1: not twelve words of up to four
\* letters; -2: wrong parity.
eng2key(text) == FromPieces(Pieces(text))
===============================================================================
