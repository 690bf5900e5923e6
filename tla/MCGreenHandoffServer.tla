------------------------ MODULE MCGreenHandoffServer ------------------------
(* One green thread per client, as thread_creation(sync_prim, client_count). *)
EXTENDS GreenHandoffServer

CONSTANTS k1, k2, k3, t1, t2, t3

Trio == {k1, k2, k3}
TrioThreads == {t1, t2, t3}
=============================================================================
