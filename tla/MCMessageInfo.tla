---------------------------- MODULE MCMessageInfo ----------------------------
(* Arguments at the edges of every field, as sets of 1 bits: 0, 1, the     *)
(* all-ones of the narrow fields and one past them (3, 4, 7, 8, 127, 128), *)
(* and for the label 2^20 - 1, 2^20 and the largest seL4_Uint32.           *)
EXTENDS MessageInfo

EdgeValues == {{}, {0}, 0 .. 1, {2}, 0 .. 2, {3}, 0 .. 6, {7},
               0 .. 19, {20}, 0 .. 31}
=============================================================================
