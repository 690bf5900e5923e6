--------------------------- MODULE MCGeneratedTypes ---------------------------
(***************************************************************************)
(* The generated libsel4 bitfield types checked together: MessageInfo,    *)
(* CapData, Fault, PrioProps and CapRights, each instantiated with its     *)
(* own variables and its own argument words.  A behaviour picks one type   *)
(* (which) and runs that type's Init and Next; the other types sit in a    *)
(* state their own Init allows.  The state space is the sum of the five,   *)
(* not their product.                                                      *)
(***************************************************************************)
EXTENDS Word32

VARIABLES
    which,
    info, infoFields,
    cap, capKind, capFields,
    fault, faultKind, faultFields,
    props, propsFields,
    rights, rightsFields

Evens == {b \in Bits : b % 2 = 0}
Odds  == Bits \ Evens

\* Message info: 0, 1, the all-ones of the narrow fields and one past them
\* (3, 4, 7, 8, 127, 128), and for the label 2^20 - 1, 2^20 and the
\* largest seL4_Uint32.
InfoValues == {{}, {0}, 0 .. 1, {2}, 0 .. 2, {3}, 0 .. 6, {7},
               0 .. 19, {20}, 0 .. 31}

\* Cap data: single bits at and around each field's top (bits 0-5, 17,
\* 18, 27, 28, 31), the all-ones of GuardSize, GuardBits and Badge, the
\* largest seL4_Uint32, 0x55555555 and 0xaaaaaaaa, which expose a shift by
\* the wrong amount, and the badge 0x61 main.c mints.
CapValues == {{}, {0}, {1}, {2}, {3}, {4}, {5}, {17}, {18}, {27}, {28}, {31},
              0 .. 4, 0 .. 17, 0 .. 27, 0 .. 31, Evens, Odds, {0, 5, 6}}

\* Fault: 0 and 0xffffffff, so a word of every field is either clear or
\* full, and a field written into another's word, or a word left over from
\* an earlier fault, reads back wrong.
FaultValues == {{}, Bits}

\* Priorities: 0, 1, 255, 256, 0x5555 and 0xaaaa across both fields, and
\* the largest seL4_Uint32.
PrioValues == {{}, {0}, 0 .. 7, {8}, {b \in 0 .. 15 : b % 2 = 0},
               {b \in 0 .. 15 : b % 2 = 1}, Bits}

\* Rights: 0, 1, 2, 3 and the largest seL4_Uint32.
RightsValues == {{}, {0}, {1}, 0 .. 1, Bits}

Info   == INSTANCE MessageInfo WITH Values <- InfoValues, fields <- infoFields
Cap    == INSTANCE CapData WITH Values <- CapValues, kind <- capKind,
                                fields <- capFields
Flt    == INSTANCE Fault WITH Values <- FaultValues, kind <- faultKind,
                              fields <- faultFields
Prio   == INSTANCE PrioProps WITH Values <- PrioValues, fields <- propsFields
Rights == INSTANCE CapRights WITH Values <- RightsValues, fields <- rightsFields

infoVars   == <<info, infoFields>>
capVars    == <<cap, capKind, capFields>>
faultVars  == <<fault, faultKind, faultFields>>
propsVars  == <<props, propsFields>>
rightsVars == <<rights, rightsFields>>
vars == <<which, infoVars, capVars, faultVars, propsVars, rightsVars>>

Types == {"info", "cap", "fault", "props", "rights"}

\* The same types with 0 as the only argument: the state each type sits
\* in while another is checked is new with all arguments zero (a NullFault
\* for Fault).
Info0   == INSTANCE MessageInfo WITH Values <- {{}}, fields <- infoFields
Cap0    == INSTANCE CapData WITH Values <- {{}}, kind <- capKind, fields <- capFields
Flt0    == INSTANCE Fault WITH Values <- {{}}, kind <- faultKind, fields <- faultFields
Prio0   == INSTANCE PrioProps WITH Values <- {{}}, fields <- propsFields
Rights0 == INSTANCE CapRights WITH Values <- {{}}, fields <- rightsFields

Init ==
    /\ which \in Types
    /\ IF which = "info" THEN Info!Init ELSE Info0!Init
    /\ IF which = "cap" THEN Cap!Init ELSE Cap0!Init /\ cap = {}
    /\ IF which = "fault" THEN Flt!Init ELSE Flt0!Init /\ faultKind = "NullFault"
    /\ IF which = "props" THEN Prio!Init ELSE Prio0!Init
    /\ IF which = "rights" THEN Rights!Init ELSE Rights0!Init

Next ==
    \/ which = "info"   /\ Info!Next   /\ UNCHANGED <<which, capVars, faultVars, propsVars, rightsVars>>
    \/ which = "cap"    /\ Cap!Next    /\ UNCHANGED <<which, infoVars, faultVars, propsVars, rightsVars>>
    \/ which = "fault"  /\ Flt!Next    /\ UNCHANGED <<which, infoVars, capVars, propsVars, rightsVars>>
    \/ which = "props"  /\ Prio!Next   /\ UNCHANGED <<which, infoVars, capVars, faultVars, rightsVars>>
    \/ which = "rights" /\ Rights!Next /\ UNCHANGED <<which, infoVars, capVars, faultVars, propsVars>>

Spec == Init /\ [][Next]_vars

-----------------------------------------------------------------------------

\* seL4_MessageInfo_t: every getter reads back its field, cut to width,
\* whatever the other fields hold (MessageInfo!FieldsRoundTrip).
FieldsRoundTrip == Info!FieldsRoundTrip

\* seL4_CapData_t: the tag names the variant and that variant's fields read
\* back (CapData!CapDataRoundTrip).
CapDataRoundTrip == Cap!CapDataRoundTrip

\* seL4_Fault_t: tag, fields, and unused words zero after _ptr_new over an
\* earlier fault (Fault!FaultRoundTrip).
FaultRoundTrip == Flt!FaultRoundTrip

\* seL4_PrioProps_t: mcp and prio read back, cut to 8 bits, and nothing
\* above bit 15 (PrioProps!PrioPropsRoundTrip).
PrioPropsRoundTrip == Prio!PrioPropsRoundTrip

\* seL4_CapRights_t: each right reads back its low bit and no other bit is
\* set (CapRights!CapRightsRoundTrip).
CapRightsRoundTrip == Rights!CapRightsRoundTrip

=============================================================================
