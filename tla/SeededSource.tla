---------------------------- MODULE SeededSource ----------------------------
(***************************************************************************)
(* The replayable sample source of packages/engine/src/deterministic-      *)
(* uint32-source.ts, PCG XSH RR, with its widths scaled down: a word of    *)
(* WordBits (64 in the code) gives a sample of half as many bits (32), and *)
(* the top RotationBits (5) of the word say how far the sample is rotated. *)
(* The scaling keeps the relations between the widths that make the shifts *)
(* 18, 27 and 59: the sample is as wide as 2^RotationBits.  The multiplier *)
(* is the code's, reduced to the word.                                     *)
(***************************************************************************)
EXTENDS Integers, Bitwise

CONSTANT RotationBits   \* 1, 2 or 3 here, 5 in the code

SampleBits == 2^RotationBits
WordBits == 2 * SampleBits
Word == 0 .. 2^WordBits - 1

\* PCG_MULTIPLIER, 6364136223846793005, which is 32557 modulo 2^16.
Multiplier == 32557 % 2^WordBits

\* The shift of the result (27) and of the mixing xor (18).
ResultShift == WordBits - SampleBits - RotationBits
MixShift == (RotationBits + SampleBits) \div 2

\* Mutant: the stream's increment is not made odd.
Increment_even(domain) == (2 * domain) % 2^WordBits

Increment(domain) == (2 * domain + 1) % 2^WordBits

Advance(word, domain) == (word * Multiplier + Increment(domain)) % 2^WordBits

Xorshifted(word) ==
    (((word \div 2^MixShift) ^^ word) \div 2^ResultShift) % 2^SampleBits
Rotation(word) == word \div 2^(WordBits - RotationBits)
RotateRight(x, r) ==
    (x \div 2^r) + ((x * 2^(SampleBits - r)) % 2^SampleBits)
SampleOf(word) ==
    IF Rotation(word) = 0 THEN Xorshifted(word)
    ELSE RotateRight(Xorshifted(word), Rotation(word))

\* The canonical seeding: one step from zero, add the seed, one more step.
Seeded(seed, domain) ==
    Advance((Advance(0, domain) + seed) % 2^WordBits, domain)

=============================================================================
