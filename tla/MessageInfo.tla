---------------------------- MODULE MessageInfo ----------------------------
(***************************************************************************)
(* seL4_MessageInfo_t, the message tag every seL4_Call, seL4_Send and      *)
(* seL4_Recv of src/main.c carries, as the generated libsel4 header        *)
(* shared_types_gen.h defines it: one seL4_Uint32 word, words[0], with     *)
(*   label          bits 12-31  mask 0xfffff000                            *)
(*   capsUnwrapped  bits  9-11  mask 0x00000e00                            *)
(*   extraCaps      bits  7-8   mask 0x00000180                            *)
(*   length         bits  0-6   mask 0x0000007f                            *)
(* The operators follow the generated code mask for mask and shift for    *)
(* shift, on the words of Word32.  seL4_DebugAssert is compiled out of a   *)
(* release build, so an argument wider than its field is cut, not refused. *)
(*                                                                         *)
(* The state is one message word, built by seL4_MessageInfo_new and then   *)
(* changed by the field setters; fields is the value each field should     *)
(* read back, computed by arithmetic as a reference.                       *)
(***************************************************************************)
EXTENDS Word32

CONSTANTS Values    \* seL4_Uint32 arguments, each as the set of its 1 bits

LabelMask  == 12 .. 31   \* 0xfffff000
CapsMask   == 9 .. 11    \* 0xe00
ExtraMask  == 7 .. 8     \* 0x180
LengthMask == 0 .. 6     \* 0x7f

\* seL4_MessageInfo_new: words[0] = 0, then each argument masked to its
\* width (0xfffff, 0x7, 0x3, 0x7f), shifted into place and or-ed in.
MessageInfoNew(label, capsUnwrapped, extraCaps, length) ==
    ShiftL(label \cap 0 .. 19, 12) \cup ShiftL(capsUnwrapped \cap 0 .. 2, 9)
      \cup ShiftL(extraCaps \cap 0 .. 1, 7) \cup ShiftL(length \cap 0 .. 6, 0)

GetLabel(w)         == GetField(w, LabelMask, 12)
GetCapsUnwrapped(w) == GetField(w, CapsMask, 9)
GetExtraCaps(w)     == GetField(w, ExtraMask, 7)
GetLength(w)        == GetField(w, LengthMask, 0)

SetLabel(w, v)         == SetField(w, LabelMask, 12, v)
SetCapsUnwrapped(w, v) == SetField(w, CapsMask, 9, v)
SetExtraCaps(w, v)     == SetField(w, ExtraMask, 7, v)
SetLength(w, v)        == SetField(w, LengthMask, 0, v)

-----------------------------------------------------------------------------
(* The reference: the field widths, and the value each field should hold.  *)

\* v mod 2^width, for a v that may not fit TLC's integers.
Width == [label |-> 20, capsUnwrapped |-> 3, extraCaps |-> 2, length |-> 7]
Fit(f, v) == FitWidth(Width[f], v)

VARIABLES
    info,    \* words[0] of a seL4_MessageInfo_t
    fields   \* what each field should read back

vars == <<info, fields>>

Init ==
    \E l, u, e, n \in Values :
        /\ info = MessageInfoNew(l, u, e, n)
        /\ fields = [label |-> Fit("label", l), capsUnwrapped |-> Fit("capsUnwrapped", u),
                     extraCaps |-> Fit("extraCaps", e), length |-> Fit("length", n)]

\* seL4_MessageInfo_set_<field>(info, v), and the _ptr_ variant, which does
\* the same to *ptr.
Set(f, v) ==
    /\ info' = CASE f = "label"         -> SetLabel(info, v)
                 [] f = "capsUnwrapped" -> SetCapsUnwrapped(info, v)
                 [] f = "extraCaps"     -> SetExtraCaps(info, v)
                 [] f = "length"        -> SetLength(info, v)
    /\ fields' = [fields EXCEPT ![f] = Fit(f, v)]

Next == \E f \in DOMAIN Width, v \in Values : Set(f, v)

Spec == Init /\ [][Next]_vars

-----------------------------------------------------------------------------

\* Every getter reads back what new or the last setter of its field put
\* there, cut to the field's width, whatever was set in the other fields:
\* the masks and shifts of the generated code tile the word without
\* overlap, and no setter disturbs another field.  process_message relies
\* on this when it dispatches on seL4_MessageInfo_get_label(info).
FieldsRoundTrip ==
    /\ Value(GetLabel(info)) = fields.label
    /\ Value(GetCapsUnwrapped(info)) = fields.capsUnwrapped
    /\ Value(GetExtraCaps(info)) = fields.extraCaps
    /\ Value(GetLength(info)) = fields.length

=============================================================================
