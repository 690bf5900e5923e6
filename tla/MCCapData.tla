------------------------------ MODULE MCCapData ------------------------------
(* Arguments at the edges of every field, as sets of 1 bits: 0, single    *)
(* bits at and around each field's top (bits 0-5, 17, 18, 27, 28, 31),    *)
(* the all-ones of GuardSize, GuardBits and Badge, the largest            *)
(* seL4_Uint32, the alternating patterns 0x55555555 and 0xaaaaaaaa that   *)
(* expose a shift by the wrong amount, and the badge 0x61 main.c mints.   *)
EXTENDS CapData

Evens == {b \in Bits : b % 2 = 0}
Odds  == Bits \ Evens

EdgeValues == {{}, {0}, {1}, {2}, {3}, {4}, {5}, {17}, {18}, {27}, {28}, {31},
               0 .. 4, 0 .. 17, 0 .. 27, 0 .. 31, Evens, Odds, {0, 5, 6}}
=============================================================================
