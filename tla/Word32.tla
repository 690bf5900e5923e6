------------------------------- MODULE Word32 -------------------------------
(***************************************************************************)
(* The seL4_Uint32 operations the generated libsel4 bitfield accessors    *)
(* (shared_types_gen.h, types_gen.h, sel4_arch/types_gen.h) are made of.   *)
(* A word is the set of the positions of its 1 bits, so &, | and ~ are     *)
(* intersection, union and complement in 0..31 and a shift drops what      *)
(* passes bit 31 or bit 0: the 32-bit width is kept exactly (TLC's         *)
(* integers stop at 2^31 - 1).                                             *)
(***************************************************************************)
EXTENDS Naturals, FiniteSetsExt

Bits == 0 .. 31

\* x << n and x >> n on a seL4_Uint32.
ShiftL(x, n) == {b + n : b \in x} \cap Bits
ShiftR(x, n) == {b - n : b \in {c \in x : c >= n}}

\* ~m on a seL4_Uint32.
Complement(m) == Bits \ m

\* A getter: ret = (words[k] & mask) >> pos.  (The "possibly sign extend"
\* branch is "if (0 && ...)" and never runs.)
GetField(w, mask, pos) == ShiftR(w \cap mask, pos)

\* A setter that ors the new value in without clearing the old bits.
SetFieldNoClear(w, mask, pos, v) == w \cup (ShiftL(v, pos) \cap mask)

\* A setter: words[k] &= ~mask; words[k] |= (v << pos) & mask.
SetField(w, mask, pos, v) ==
    (w \cap Complement(mask)) \cup (ShiftL(v, pos) \cap mask)

\* The number a set of bits stands for.
Value(x) == MapThenSumSet(LAMBDA b : 2^b, x)

\* v mod 2^width: the sum of the powers of two of v below the width.
FitWidth(width, v) == Value({b \in v : b < width})

=============================================================================
