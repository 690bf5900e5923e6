-------------------------- MODULE MCGreenCPServer --------------------------
(* One green thread per client, as main_continued creates client_count    *)
(* threads for client_count clients.                                      *)
EXTENDS GreenCPServer, TLC

CONSTANTS p1, p2, c1, t1, t2, t3

\* One producer and one consumer, three requests each.
PairClientsP == {p1}
PairClientsC == {c1}
PairThreads == {t1, t2}
PairWork == (p1 :> 3 @@ c1 :> 3)

\* Two producers one item each, one consumer taking both: the producer that
\* comes second finds the buffer full and sleeps on producer_list until the
\* consumer takes; with one slot and two items at most one thread sleeps
\* on each list.
TrioClientsP == {p1, p2}
TrioClientsC == {c1}
TrioThreads == {t1, t2, t3}
TrioWork == (p1 :> 1 @@ p2 :> 1 @@ c1 :> 2)
=============================================================================
