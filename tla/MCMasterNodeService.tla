------------------------- MODULE MCMasterNodeService -------------------------
(* Instances of MasterNodeService for TLC.                                   *)
EXTENDS MasterNodeService, TLC

Interchangeable == Permutations(Workers) \cup Permutations(Objects) \cup Permutations(Clients)
=============================================================================
