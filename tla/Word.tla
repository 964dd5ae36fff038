-------------------------------- MODULE Word --------------------------------
(***************************************************************************)
(* Machine words and the host's little-endian memory.  A word is four      *)
(* bytes and a halfword two, as in the program; a byte has ByteBits bits   *)
(* (8 in the program) so that whole words can be enumerated.  A word is    *)
(* kept as its signed value (int32_t); addresses and the program counter   *)
(* are unsigned.                                                           *)
(***************************************************************************)
EXTENDS Integers, FiniteSets, FiniteSetsExt

CONSTANT ByteBits

ASSUME ByteBitsAssumption == ByteBits \in Nat \ {0}

Values(size) == 2 ^ (ByteBits * size)   \* number of values of `size` bytes
WordBits == ByteBits * 4

IntMax == 2 ^ (WordBits - 1) - 1
IntMin == -(2 ^ (WordBits - 1))
Words  == IntMin .. IntMax
Addrs  == 0 .. Values(4) - 1

\* f[1] + ... + f[n].
SumTo(f, n) ==
  LET Sum[k \in 0 .. n] == IF k = 0 THEN 0 ELSE Sum[k - 1] + f[k]
  IN  Sum[n]

Unsigned(v) == v % Values(4)
ZeroExtend(v, size) == v % Values(size)
SignExtend(v, size) ==
  LET u == v % Values(size)
  IN  IF u < Values(size) \div 2 THEN u ELSE u - Values(size)
Wrap(v) == SignExtend(v, 4)

\* The host's read and write callbacks on a memory m (a function of addresses)
\* that has all the bytes a .. a + size - 1.
Span(a, size) == a .. a + size - 1
Load(m, a, size) ==
  Wrap(m[a] + (IF size > 1 THEN m[a + 1] * Values(1) ELSE 0)
            + (IF size > 2 THEN m[a + 2] * Values(2) + m[a + 3] * Values(3) ELSE 0))
Store(m, a, v, size) ==
  [b \in DOMAIN m |->
     IF b \in Span(a, size) THEN (Unsigned(v) \div Values(b - a)) % Values(1) ELSE m[b]]
=============================================================================
