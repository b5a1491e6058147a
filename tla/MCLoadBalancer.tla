--------------------------- MODULE MCLoadBalancer ---------------------------
(* Instances of LoadBalancer for TLC.                                        *)
EXTENDS LoadBalancer

CONSTANTS pt, en

\* One language and room for one task, both languages and room for two.
MCProfiles == {[langs |-> {pt}, capacity |-> 1],
               [langs |-> {pt, en}, capacity |-> 2]}
\* A worker that announces no room (the default of an unset protobuf field).
MCProfilesEdge == {[langs |-> {pt}, capacity |-> 0],
                   [langs |-> {pt}, capacity |-> 1]}

Interchangeable == Permutations(Workers) \cup Permutations(Dispatchers)
=============================================================================
