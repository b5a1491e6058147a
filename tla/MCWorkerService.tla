--------------------------- MODULE MCWorkerService ---------------------------
(* Instances of WorkerService for TLC.                                       *)
EXTENDS WorkerService, TLC

Interchangeable == Permutations(Workers) \cup Permutations(Objects) \cup Permutations(Clients)
=============================================================================
