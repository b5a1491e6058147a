------------------------- MODULE MCBatchCircularList -------------------------
(* Instances of BatchCircularList for TLC.                                   *)
EXTENDS BatchCircularList

CONSTANTS b1, b2, t1, t2, t3

\* As created, and as restored with one of the two tasks already finished.
MCSubmissions == {[batch |-> b1, tasks |-> <<t1, t2>>], [batch |-> b1, tasks |-> <<t2>>],
                  [batch |-> b2, tasks |-> <<t3>>]}

Interchangeable == Permutations(Queues) \cup Permutations(Dispatchers)
=============================================================================
