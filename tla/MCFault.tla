------------------------------- MODULE MCFault -------------------------------
(* Arguments 0 and 0xffffffff: a word of every field is either clear or    *)
(* full, so a field written into another's word, or a word left over from  *)
(* an earlier fault, reads back wrong.                                      *)
EXTENDS Fault

EdgeValues == {{}, Bits}
=============================================================================
