------------------------- MODULE MCSel4HandoffServer -------------------------
(* One seL4 thread per client, as sel4_threads_initial(client_count). *)
EXTENDS Sel4HandoffServer

CONSTANTS k1, k2, k3, t1, t2, t3

Trio == {k1, k2, k3}
TrioThreads == {t1, t2, t3}
=============================================================================
