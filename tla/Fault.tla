-------------------------------- MODULE Fault --------------------------------
(***************************************************************************)
(* seL4_Fault_t, the fault message the kernel sends a fault handler, as   *)
(* the generated ia32 header sel4_arch/types_gen.h defines it: a tagged    *)
(* union of twelve seL4_Uint32 words.  The tag seL4_FaultType is bits 0-2 *)
(* of words[0]; every field of every variant is a whole word (mask         *)
(* 0xffffffff, shift 0) of words[1..11], the constructor's first argument  *)
(* in the highest word its variant uses.  The variants share the words:    *)
(* only the tag tells them apart.                                          *)
(*                                                                         *)
(* A constructor, _new or _ptr_new, first zeroes all twelve words, then    *)
(* ors each argument into its word and the tag into words[0].  _ptr_new    *)
(* writes into a seL4_Fault_t that may hold an earlier fault.  The         *)
(* accessors are called on a word of their own variant, as their asserts   *)
(* require.  src/main.c reads a fault's label (line 335) and compares it   *)
(* with seL4_Fault_NullFault.                                              *)
(***************************************************************************)
EXTENDS Word32

CONSTANTS Values    \* seL4_Uint32 arguments, each as the set of its 1 bits

Words == 0 .. 11

\* enum seL4_Fault_tag, as words.
Tag == [NullFault |-> {}, CapFault |-> {0}, UnknownSyscall |-> {1},
        UserException |-> {0, 1}, VMFault |-> {0, 2}]
Kinds == DOMAIN Tag

\* seL4_Fault_get_seL4_FaultType: (words[0] >> 0) & 0x7.
GetFaultType(f) == ShiftR(f[0], 0) \cap 0 .. 2

\* The word each field's get, set, ptr_get and ptr_set accessors use.
CapFault_IP                == 7
CapFault_Addr              == 6
CapFault_InRecvPhase       == 5
CapFault_LookupFailureType == 4
CapFault_MR4               == 3
CapFault_MR5               == 2
CapFault_MR6               == 1
UnknownSyscall_EAX         == 11
UnknownSyscall_EBX         == 10
UnknownSyscall_ECX         == 9
UnknownSyscall_EDX         == 8
UnknownSyscall_ESI         == 7
UnknownSyscall_EDI         == 6
UnknownSyscall_EBP         == 5
UnknownSyscall_FaultIP     == 4
UnknownSyscall_ESP         == 3
UnknownSyscall_EFLAGS      == 2
UnknownSyscall_Syscall     == 1
UserException_FaultIP      == 5
UserException_Stack        == 4
UserException_EFLAGS       == 3
UserException_Number       == 2
UserException_Code         == 1
VMFault_IP                 == 4
VMFault_Addr               == 3
VMFault_PrefetchFault      == 2
VMFault_FSR                == 1

\* Each constructor's arguments and the word it ors each into.
NullFaultLayout == [g \in {} |-> 0]
CapFaultLayout ==
    [IP |-> CapFault_IP, Addr |-> CapFault_Addr, InRecvPhase |-> CapFault_InRecvPhase,
     LookupFailureType |-> CapFault_LookupFailureType, MR4 |-> CapFault_MR4,
     MR5 |-> CapFault_MR5, MR6 |-> CapFault_MR6]
UnknownSyscallLayout ==
    [EAX |-> UnknownSyscall_EAX, EBX |-> UnknownSyscall_EBX, ECX |-> UnknownSyscall_ECX,
     EDX |-> UnknownSyscall_EDX, ESI |-> UnknownSyscall_ESI, EDI |-> UnknownSyscall_EDI,
     EBP |-> UnknownSyscall_EBP, FaultIP |-> UnknownSyscall_FaultIP,
     ESP |-> UnknownSyscall_ESP, EFLAGS |-> UnknownSyscall_EFLAGS,
     Syscall |-> UnknownSyscall_Syscall]
UserExceptionLayout ==
    [FaultIP |-> UserException_FaultIP, Stack |-> UserException_Stack,
     EFLAGS |-> UserException_EFLAGS, Number |-> UserException_Number,
     Code |-> UserException_Code]
VMFaultLayout ==
    [IP |-> VMFault_IP, Addr |-> VMFault_Addr, PrefetchFault |-> VMFault_PrefetchFault,
     FSR |-> VMFault_FSR]

Layout == [NullFault |-> NullFaultLayout, CapFault |-> CapFaultLayout,
           UnknownSyscall |-> UnknownSyscallLayout,
           UserException |-> UserExceptionLayout, VMFault |-> VMFaultLayout]

\* seL4_Fault_<k>_new(args): words[0..11] = 0; words[w] |= arg << 0 for
\* each argument; words[0] |= (tag & 0x7) << 0.
FaultNew(k, args) ==
    [w \in Words |->
        UNION {ShiftL(args[g], 0) : g \in {x \in DOMAIN Layout[k] : Layout[k][x] = w}}
          \cup (IF w = 0 THEN ShiftL(Tag[k] \cap 0 .. 2, 0) ELSE {})]

\* seL4_Fault_<k>_ptr_new without zeroing the words first.
FaultPtrNewNoClear(old, k, args) == [w \in Words |-> old[w] \cup FaultNew(k, args)[w]]

\* seL4_Fault_<k>_ptr_new(ptr, args): the same, into *ptr, whatever it held.
FaultPtrNew(old, k, args) == FaultNew(k, args)

\* seL4_Fault_<k>_get_<g>: (words[w] & 0xffffffff) >> 0.
GetFaultField(f, k, g) == GetField(f[Layout[k][g]], Bits, 0)

\* seL4_Fault_<k>_set_<g>: words[w] &= ~0xffffffff; words[w] |= (v << 0) & 0xffffffff.
SetFaultField(f, k, g, v) == [f EXCEPT ![Layout[k][g]] = SetField(@, Bits, 0, v)]

-----------------------------------------------------------------------------

VARIABLES
    fault,   \* words[0..11] of one seL4_Fault_t
    kind,    \* the variant it was last built as
    fields   \* what each field of that variant should read back

vars == <<fault, kind, fields>>

Args(k) == [DOMAIN Layout[k] -> Values]

Init ==
    \E k \in Kinds : \E args \in Args(k) :
        /\ fault = FaultNew(k, args)
        /\ kind = k
        /\ fields = args

\* seL4_Fault_<k>_ptr_new on the same storage, building another fault.
\* Its arguments are all one value of Values: a word of the earlier fault
\* that survives shows against a zero or a full argument alike.
Renew(k, args) ==
    /\ fault' = FaultPtrNew(fault, k, args)
    /\ kind' = k
    /\ fields' = args

\* seL4_Fault_<kind>_set_<g>(fault, v), or its _ptr_ variant.
Set(g, v) ==
    /\ g \in DOMAIN Layout[kind]
    /\ fault' = SetFaultField(fault, kind, g, v)
    /\ fields' = [fields EXCEPT ![g] = v]
    /\ UNCHANGED kind

Next ==
    \/ \E k \in Kinds, v \in Values : Renew(k, [g \in DOMAIN Layout[k] |-> v])
    \/ \E g \in UNION {DOMAIN Layout[k] : k \in Kinds}, v \in Values : Set(g, v)

Spec == Init /\ [][Next]_vars

-----------------------------------------------------------------------------

\* A fault reads back as the variant it was last built as, every getter of
\* that variant reads back what the constructor or the last setter put in
\* its field, and every word the variant does not use is zero: nothing of
\* a fault built earlier in the same storage by _ptr_new survives.  A
\* handler that dispatches on seL4_Fault_get_seL4_FaultType, as run_test
\* does on the label at line 335, relies on this.
FaultRoundTrip ==
    /\ GetFaultType(fault) = Tag[kind]
    /\ \A g \in DOMAIN Layout[kind] : GetFaultField(fault, kind, g) = fields[g]
    /\ \A w \in Words \ ({0} \cup {Layout[kind][g] : g \in DOMAIN Layout[kind]}) :
          fault[w] = {}
    /\ fault[0] \subseteq 0 .. 2

=============================================================================
