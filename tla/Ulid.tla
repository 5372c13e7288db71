-------------------------------- MODULE Ulid --------------------------------
(***************************************************************************)
(* internal/platform/id/ulid.go: the identifiers of requests and tokens,   *)
(* with a byte of ByteBits bits in place of 8.  Everything else keeps its  *)
(* number: six bytes of time, ten of chance, two words of eight bytes, and *)
(* characters of five bits.                                                *)
(***************************************************************************)
EXTENDS Integers, Sequences

CONSTANT ByteBits

ASSUME UlidAssumption == ByteBits \in Nat \ {0}

timestampBytes == 6
WordBits  == 8 * ByteBits
Chars     == (2 * WordBits + 4) \div 5
CharBits  == 5

Word == 0 .. 2^WordBits - 1

\* The bits of the two are disjoint: | is +.
Shl(word, n) == (word * 2^n) % 2^WordBits
Shr(word, n) == word \div 2^n

\* Mutant: hi << n, for hi << (64-n).
shiftRightSlip(hi, lo, n) ==
  CASE n <= 0                 -> lo
    [] n \in 1 .. WordBits - 1 -> Shr(lo, n) + Shl(hi, n)
    [] OTHER                  -> Shr(hi, n - WordBits)

shiftRight(hi, lo, n) ==
  CASE n <= 0                 -> lo
    [] n \in 1 .. WordBits - 1 -> Shr(lo, n) + Shl(hi, WordBits - n)
    [] OTHER                  -> Shr(hi, n - WordBits)

\* A character is its place in the alphabet, which is in ascending order.
encode(hi, lo) ==
  [i \in 1..Chars |-> shiftRight(hi, lo, (Chars - i) * CharBits) % 2^CharBits]

\* Time in the most significant bytes, and as much of the chance as hi has left.
NewULID(ms, random) ==
  LET left == (8 - timestampBytes) * ByteBits
      time == ms % 2^(timestampBytes * ByteBits)
  IN  encode(time * 2^left + Shr(random, WordBits), random % 2^WordBits)

\* Strings are compared character by character.
Before(s, t) ==
  \E i \in DOMAIN s : s[i] < t[i] /\ \A j \in 1 .. i - 1 : s[j] = t[j]
=============================================================================
