------------------------------ MODULE PrioProps ------------------------------
(***************************************************************************)
(* seL4_PrioProps_t, the maximum controlled priority and priority of a    *)
(* thread, as the generated libsel4 header shared_types_gen.h defines it:  *)
(* one seL4_Uint32, words[0], with                                         *)
(*   mcp   bits 8-15  mask 0xff00                                          *)
(*   prio  bits 0-7   mask 0x00ff                                          *)
(* new and ptr_new zero the word and or each argument in, masked to 8 bits *)
(* and shifted into place; the setters clear the field's mask and or in    *)
(* the shifted value under it.                                             *)
(***************************************************************************)
EXTENDS Word32

CONSTANTS Values    \* seL4_Uint32 arguments, each as the set of its 1 bits

McpMask  == 8 .. 15   \* 0xff00
PrioMask == 0 .. 7    \* 0xff

\* A bug of the kind a hand edit of the generated code would bring in:
\* the arguments put into each other's fields.
PrioPropsNewSwapped(mcp, prio) ==
    ShiftL(prio \cap 0 .. 7, 8) \cup ShiftL(mcp \cap 0 .. 7, 0)

\* seL4_PrioProps_new (and _ptr_new): words[0] = 0; then
\* (mcp & 0xff) << 8 and (prio & 0xff) << 0 are or-ed in.
PrioPropsNew(mcp, prio) ==
    ShiftL(mcp \cap 0 .. 7, 8) \cup ShiftL(prio \cap 0 .. 7, 0)

GetMcp(w)  == GetField(w, McpMask, 8)
GetPrio(w) == GetField(w, PrioMask, 0)

SetMcp(w, v)  == SetField(w, McpMask, 8, v)
SetPrio(w, v) == SetField(w, PrioMask, 0, v)

-----------------------------------------------------------------------------

Width == [mcp |-> 8, prio |-> 8]
Fit(f, v) == FitWidth(Width[f], v)

VARIABLES
    props,   \* words[0] of a seL4_PrioProps_t
    fields   \* what each field should read back

vars == <<props, fields>>

Init ==
    \E m, p \in Values :
        /\ props = PrioPropsNew(m, p)
        /\ fields = [mcp |-> Fit("mcp", m), prio |-> Fit("prio", p)]

\* seL4_PrioProps_set_<field>(props, v), and the _ptr_ variant.
Set(f, v) ==
    /\ props' = IF f = "mcp" THEN SetMcp(props, v) ELSE SetPrio(props, v)
    /\ fields' = [fields EXCEPT ![f] = Fit(f, v)]

Next == \E f \in DOMAIN Width, v \in Values : Set(f, v)

Spec == Init /\ [][Next]_vars

-----------------------------------------------------------------------------

\* Both getters read back what new or the last setter of their field put
\* there, cut to 8 bits, and no bit above 15 is ever set: an mcp or a
\* priority above 255 is cut, never carried into the other field, as the
\* kernel reads the two from one word.
PrioPropsRoundTrip ==
    /\ Value(GetMcp(props)) = fields.mcp
    /\ Value(GetPrio(props)) = fields.prio
    /\ props \subseteq McpMask \cup PrioMask

=============================================================================
