---------------------------- MODULE MCTaskService ----------------------------
(* Instances of TaskService for TLC.                                         *)
EXTENDS TaskService, TLC

Interchangeable == Permutations(Objects) \cup Permutations(Clients)
=============================================================================
