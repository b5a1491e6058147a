------------------------- MODULE MCHeartbeatMonitor -------------------------
(* Instances of HeartbeatMonitor for TLC.                                    *)
EXTENDS HeartbeatMonitor

CONSTANT pt

MCProfiles == {[langs |-> {pt}, capacity |-> 1]}
=============================================================================
