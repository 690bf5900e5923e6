------------------------------ MODULE CapRights ------------------------------
(***************************************************************************)
(* seL4_CapRights_t, the rights of a capability, as the generated libsel4 *)
(* header shared_types_gen.h defines it: one seL4_Uint32, words[0], with   *)
(* one bit per right:                                                      *)
(*   capAllowGrant  bit 2  mask 0x4                                        *)
(*   capAllowRead   bit 1  mask 0x2                                        *)
(*   capAllowWrite  bit 0  mask 0x1                                        *)
(* new and ptr_new zero the word and or each argument in, masked to one    *)
(* bit and shifted into place; the setters clear the right's bit and or in *)
(* the shifted value under its mask.  main.c copies caps with             *)
(* seL4_AllRights, a word of this type.                                    *)
(***************************************************************************)
EXTENDS Word32

CONSTANTS Values    \* seL4_Uint32 arguments, each as the set of its 1 bits

\* Each right's bit: its mask and its shift.
Pos == [capAllowGrant |-> 2, capAllowRead |-> 1, capAllowWrite |-> 0]
Mask(r) == {Pos[r]}
Rights == DOMAIN Pos

\* seL4_CapRights_new with the arguments or-ed in without the & 0x1.
CapRightsNewUnmasked(grant, read, write) ==
    ShiftL(grant, 2) \cup ShiftL(read, 1) \cup ShiftL(write, 0)

\* seL4_CapRights_new (and _ptr_new): words[0] = 0; then
\* (capAllowGrant & 0x1) << 2, (capAllowRead & 0x1) << 1 and
\* (capAllowWrite & 0x1) << 0 are or-ed in.
CapRightsNew(grant, read, write) ==
    ShiftL(grant \cap {0}, 2) \cup ShiftL(read \cap {0}, 1) \cup ShiftL(write \cap {0}, 0)

\* seL4_CapRights_get_<r> and seL4_CapRights_set_<r>, and their _ptr_
\* variants.
GetRight(w, r) == GetField(w, Mask(r), Pos[r])
SetRight(w, r, v) == SetField(w, Mask(r), Pos[r], v)

-----------------------------------------------------------------------------

VARIABLES
    rights,  \* words[0] of a seL4_CapRights_t
    fields   \* what each right should read back: 0 or 1

vars == <<rights, fields>>

Init ==
    \E g, r, w \in Values :
        /\ rights = CapRightsNew(g, r, w)
        /\ fields = [capAllowGrant |-> FitWidth(1, g), capAllowRead |-> FitWidth(1, r),
                     capAllowWrite |-> FitWidth(1, w)]

Set(r, v) ==
    /\ rights' = SetRight(rights, r, v)
    /\ fields' = [fields EXCEPT ![r] = FitWidth(1, v)]

Next == \E r \in Rights, v \in Values : Set(r, v)

Spec == Init /\ [][Next]_vars

-----------------------------------------------------------------------------

\* Each right reads back the low bit of what new or its last setter was
\* given, and no bit outside the three rights is ever set: a caller that
\* passes a non-zero value wider than one bit, say 2 for "true", gets the
\* bit cut rather than granting the neighbouring right.
CapRightsRoundTrip ==
    /\ \A r \in Rights : Value(GetRight(rights, r)) = fields[r]
    /\ rights \subseteq {Pos[r] : r \in Rights}

=============================================================================
