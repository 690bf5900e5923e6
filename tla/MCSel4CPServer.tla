--------------------------- MODULE MCSel4CPServer ---------------------------
(* One server thread per client, as sel4_threads_initial(client_count).   *)
EXTENDS Sel4CPServer, TLC

CONSTANTS p1, p2, c1, t1, t2, t3

PairP == {p1}
PairC == {c1}
PairThreads == {t1, t2}
PairWork == (p1 :> 2 @@ c1 :> 2)

TrioP == {p1, p2}
TrioC == {c1}
TrioThreads == {t1, t2, t3}
TrioWork == (p1 :> 2 @@ p2 :> 2 @@ c1 :> 4)
\* Three requests of p1 and p2 against one slot of buffer: p1's second
\* request and p2's can both be waiting on producer_list.
TrioLiveWork == (p1 :> 2 @@ p2 :> 1 @@ c1 :> 3)
=============================================================================
