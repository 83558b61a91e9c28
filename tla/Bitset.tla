------------------------------- MODULE Bitset -------------------------------
(***************************************************************************)
(* lib/bitset.h: sets of numbers as arrays of SSE words.  A bitset is the  *)
(* set of its bits, those of word w from w * WordBits on.  The loops over  *)
(* words take Group of them in an iteration, and the counting loop adds    *)
(* bytes up in a register for at most Chunk words at a time.               *)
(***************************************************************************)
EXTENDS Integers, FiniteSets, FiniteSetsExt

CONSTANTS WordBits,   \* 128
          ByteBits,   \* 8
          ByteSize,   \* 256, the values of a byte of the register
          Group,      \* 4
          Chunk       \* MAX, 28

ASSUME BitsetAssumption ==
    /\ {WordBits, ByteBits, ByteSize, Group, Chunk} \subseteq Nat \ {0}
    /\ WordBits % ByteBits = 0 /\ Chunk % Group = 0
    /\ Chunk * ByteBits < ByteSize

LeastMultiple(n, of) == of * ((n + of - 1) \div of)

\* The words for nbit bits, rounded up to whole groups.
get_len_from_bit(nbit) ==
    LET l == (nbit - 1) \div WordBits + 1
    IN IF l % Group = 0 THEN l ELSE (l \div Group + 1) * Group

WordOf(bit) == bit \div WordBits
ByteOf(bit) == (bit % WordBits) \div ByteBits

\* set and get_and_set on each of S, in any order.
Bits(S) == {WordOf(x) * WordBits + (x % WordBits) : x \in S}

\* The words that a do-while loop over len words goes through: whole groups,
\* and one group at least.
WordsOf(len) == 0 .. LeastMultiple(Max({len, 1}), Group) - 1

or_arr(b, r, len) == b \cup {x \in r : WordOf(x) \in WordsOf(len)}
and_not_arr(b, r, len) == b \ {x \in r : WordOf(x) \in WordsOf(len)}

\* The words of chunk c, and the bits of b in byte p of any of them.
WordsIn(c, len) == c * Chunk .. LeastMultiple(Min({len, (c + 1) * Chunk}), Group) - 1
BitsIn(b, len, c, p) == {x \in b : WordOf(x) \in WordsIn(c, len) /\ ByteOf(x) = p}

\* ssse3_popcount3: in every chunk each byte of the register holds the sum of
\* that byte of the words, modulo ByteSize; psadbw then adds up the bytes.
Register(b, len, c) ==
    [p \in 0 .. WordBits \div ByteBits - 1 |-> Cardinality(BitsIn(b, len, c, p)) % ByteSize]

count(b, len) ==
    SumFunction([c \in 0 .. (len - 1) \div Chunk |-> SumFunction(Register(b, len, c))])
=============================================================================
