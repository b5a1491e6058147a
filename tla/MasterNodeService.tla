--------------------------- MODULE MasterNodeService ---------------------------
(***************************************************************************)
(* MasterNodeServiceImpl (transport/grpc/services.py) over WorkerService:   *)
(* which calls of a worker reach the service, and what the worker may       *)
(* conclude from the answers.                                               *)
(*                                                                          *)
(* Each process of the core has a master_id.  An answer to RegisterWorker   *)
(* carries it; SendHeartbeat and ShutdownWorker are refused                 *)
(* (PERMISSION_DENIED) without it.  Whether a restarted core has the id of  *)
(* the one before is up to whoever starts it; nothing in src/ does yet.     *)
(* A refused call changes nothing and is not an action, nor is one whose    *)
(* worker id or request is malformed (INVALID_ARGUMENT).                    *)
(***************************************************************************)
EXTENDS WorkerService

VARIABLES
  admitted,  \* workers that hold the master_id of the present process
  told       \* per worker: the profile its last registration was answered OK for,
             \* None once it has asked for more, was told otherwise or fell silent

knowledge == <<admitted, told>>

MasterInit ==
  /\ Init
  /\ admitted \in SUBSET DOMAIN table
  /\ told = [w \in Workers |-> None]

Forgets(w) == told' = [told EXCEPT ![w] = None]

-----------------------------------------------------------------------------
\* The core starts, with the master_id it had or another one.
Start ==
  /\ Restore
  /\ admitted' \in {admitted, {}}
  /\ UNCHANGED told

\* The entity made of the request, with whatever the worker announces in it.
Announces(c, w) == \E p \in Profiles : Register(c, w, p)

RegisterWorker(c, w) ==
  /\ Announces(c, w)
  /\ Forgets(w)
  /\ UNCHANGED admitted

\* CONNECTION_STATUS_OK, with the master_id.
Admits(c) ==
  /\ RegisterReturn(c)
  /\ told' = [told EXCEPT ![req[c].id] = objs[req[c].obj].profile]
  /\ admitted' = admitted \cup {req[c].id}

HasMasterId(w) == w \in admitted   \* _verify_master_id

ShutdownWorker(c, w) ==
  /\ HasMasterId(w)
  /\ Shutdown(c, w)
  /\ Forgets(w)
  /\ UNCHANGED admitted

\* HEARTBEAT_RESPONSE_OK, or HEARTBEAT_RESPONSE_NOT_REGISTERED.
SendHeartbeat(w) ==
  /\ HasMasterId(w)
  /\ \/ Heartbeat(w) /\ UNCHANGED knowledge
     \/ /\ up /\ w \notin Registered
        /\ Forgets(w)
        /\ UNCHANGED <<vars, admitted>>

Works(c) ==
  \/ RegisterFound(c) \/ ShutdownFound(c) \/ Save(c)
  \/ Fail(c) \/ Abandon(c) \/ ShutdownReturn(c)

MasterNext ==
  \/ Start
  \/ Crash /\ UNCHANGED knowledge
  \/ \E c \in Clients : \/ \E w \in Workers : RegisterWorker(c, w) \/ ShutdownWorker(c, w)
                        \/ Admits(c)
                        \/ Works(c) /\ UNCHANGED knowledge
  \/ \E w \in Workers : \/ SendHeartbeat(w)
                        \/ (Age(w) \/ HandOut(w)) /\ UNCHANGED knowledge
                        \/ Expire(w) /\ Forgets(w) /\ UNCHANGED admitted

MasterSpec == MasterInit /\ [][MasterNext]_<<vars, knowledge>>

-----------------------------------------------------------------------------
\* A worker that was told CONNECTION_STATUS_OK is tracked, as what it announced, by
\* every process of the core that has restored its workers, until it asks for
\* something else or falls silent: no other request, failure or restart undoes it.
ConnectedIsTracked ==
  up => \A w \in Workers :
          told[w] # None => w \in Registered /\ objs[registry[w]].profile = told[w]
=============================================================================
