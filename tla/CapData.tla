------------------------------- MODULE CapData -------------------------------
(***************************************************************************)
(* seL4_CapData_t, the badge or guard src/main.c passes when it mints the  *)
(* test process's endpoint cap (line 403, seL4_CapData_Badge_new(0X61)),   *)
(* as the generated header types_gen.h defines it: a tagged union in one   *)
(* seL4_Uint32, words[0], with the tag CapDataType in bit 31 and           *)
(*   Badge (tag 0)  Badge      bits 0-27  mask 0x0fffffff                  *)
(*   Guard (tag 1)  GuardBits  bits 8-25  mask 0x03ffff00                  *)
(*                  GuardSize  bits 3-7   mask 0x000000f8                  *)
(* The two variants overlap: only the tag tells them apart.  The          *)
(* constructors mask each argument to its width (0xfffffff, 0x3ffff,      *)
(* 0x1f) and the setters mask the shifted value, so in a build where       *)
(* seL4_DebugAssert is empty a wide argument is cut, not refused.  The     *)
(* setters are called on a word of their own variant, as their asserts     *)
(* require.                                                                *)
(***************************************************************************)
EXTENDS Word32

CONSTANTS Values    \* seL4_Uint32 arguments, each as the set of its 1 bits

\* enum seL4_CapData_tag, as words.
Badge == {}
Guard == {0}

BadgeMask     == 0 .. 27   \* 0xfffffff
GuardBitsMask == 8 .. 25   \* 0x3ffff00
GuardSizeMask == 3 .. 7    \* 0xf8

\* seL4_CapData_get_CapDataType: (words[0] >> 31) & 0x1.
GetCapDataType(w) == ShiftR(w, 31) \cap {0}

\* The tag put in place: ((seL4_Uint32)tag & 0x1) << 31.
TagWord(tag) == ShiftL(tag \cap {0}, 31)

\* seL4_CapData_Badge_new with the badge or-ed in unmasked.
CapDataBadgeNewUnmasked(badge) == TagWord(Badge) \cup badge

\* seL4_CapData_Badge_new (and _ptr_new): words[0] = 0, the tag, then
\* (Badge & 0xfffffff) << 0.
CapDataBadgeNew(badge) == TagWord(Badge) \cup ShiftL(badge \cap 0 .. 27, 0)

\* seL4_CapData_Guard_new (and _ptr_new): words[0] = 0, the tag, then
\* (GuardBits & 0x3ffff) << 8 and (GuardSize & 0x1f) << 3.
CapDataGuardNew(guardBits, guardSize) ==
    TagWord(Guard) \cup ShiftL(guardBits \cap 0 .. 17, 8)
      \cup ShiftL(guardSize \cap 0 .. 4, 3)

GetBadge(w)     == GetField(w, BadgeMask, 0)
GetGuardBits(w) == GetField(w, GuardBitsMask, 8)
GetGuardSize(w) == GetField(w, GuardSizeMask, 3)

SetBadge(w, v)     == SetField(w, BadgeMask, 0, v)
SetGuardBits(w, v) == SetField(w, GuardBitsMask, 8, v)
SetGuardSize(w, v) == SetField(w, GuardSizeMask, 3, v)

-----------------------------------------------------------------------------
(* The reference: the variant each word was built as, and the value each   *)
(* of its fields should read back.                                         *)

Width == [Badge |-> 28, GuardBits |-> 18, GuardSize |-> 5]
Fit(f, v) == FitWidth(Width[f], v)

VARIABLES
    cap,     \* words[0] of a seL4_CapData_t
    kind,    \* the constructor it was built with: Badge or Guard
    fields   \* what each field of its variant should read back

vars == <<cap, kind, fields>>

Init ==
    \/ \E b \in Values :
          /\ cap = CapDataBadgeNew(b)
          /\ kind = Badge
          /\ fields = [Badge |-> Fit("Badge", b), GuardBits |-> 0, GuardSize |-> 0]
    \/ \E gb, gs \in Values :
          /\ cap = CapDataGuardNew(gb, gs)
          /\ kind = Guard
          /\ fields = [Badge |-> 0, GuardBits |-> Fit("GuardBits", gb),
                       GuardSize |-> Fit("GuardSize", gs)]

\* seL4_CapData_<variant>_set_<field>(cap, v), and the _ptr_ variant,
\* which does the same to *ptr.
Set(f, v) ==
    /\ IF f = "Badge" THEN kind = Badge ELSE kind = Guard
    /\ cap' = CASE f = "Badge"     -> SetBadge(cap, v)
                [] f = "GuardBits" -> SetGuardBits(cap, v)
                [] f = "GuardSize" -> SetGuardSize(cap, v)
    /\ fields' = [fields EXCEPT ![f] = Fit(f, v)]
    /\ UNCHANGED kind

Next == \E f \in DOMAIN Width, v \in Values : Set(f, v)

Spec == Init /\ [][Next]_vars

-----------------------------------------------------------------------------

\* The word still says which variant it was built as, and every getter of
\* that variant reads back what new or the last setter of its field put
\* there, cut to the field's width: no argument, however wide, reaches the
\* tag in bit 31, and the guard's two fields and the tag do not overlap.
\* sel4utils_mint_cap_to_process hands the kernel this word as the badge
\* of the endpoint cap minted at line 403.
CapDataRoundTrip ==
    /\ GetCapDataType(cap) = kind
    /\ kind = Badge => Value(GetBadge(cap)) = fields.Badge
    /\ kind = Guard => /\ Value(GetGuardBits(cap)) = fields.GuardBits
                       /\ Value(GetGuardSize(cap)) = fields.GuardSize

=============================================================================
