-------------------------- MODULE MCTaskGrpcService --------------------------
(* Instances of TaskGrpcService for TLC.                                     *)
EXTENDS TaskGrpcService, TLC

Interchangeable == Permutations(Objects) \cup Permutations(Clients)
=============================================================================
