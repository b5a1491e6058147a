---------------------------- MODULE TaskGrpcService ----------------------------
(***************************************************************************)
(* TaskGrpcServiceImpl (transport/grpc/services.py) over TaskService: which *)
(* calls a method makes, which status it answers with, and what its client  *)
(* may conclude from the answer.                                            *)
(*                                                                          *)
(* A method that finds what it wants in memory answers in the turn it is    *)
(* called in and changes nothing; it is not an action.  CancelBatch and     *)
(* DeleteBatch call get_batch first and the service's operation next: when  *)
(* the first has read the database, the second finds the batch cached, and  *)
(* nothing comes between the two.                                           *)
(*                                                                          *)
(* Left out: what the messages carry besides the status of tasks (mappers); *)
(* SubmitBatch of a batch that the service rejects (INVALID_ARGUMENT), which*)
(* changes nothing.                                                         *)
(***************************************************************************)
EXTENDS TaskService

VARIABLE told  \* what clients have been told of each batch

\* cancelled, gone: CancelBatch, DeleteBatch answered OK while nobody else was at
\* work on the batch.  missing: some method answered NOT_FOUND for a known id.
Claims == {"cancelled", "gone", "missing"}

GrpcInit == Init /\ told = [b \in Batches |-> {}]

Silent == UNCHANGED told

-----------------------------------------------------------------------------
(* The methods, until they first await.                                     *)

SubmitBatch(c) == Create(c)
GetBatch(c) == \E b \in Batches : BeginLoad(c, "get", b)
GetTask(c) == \E b \in Batches, t \in Tasks : BeginTask(c, b, t)
ListBatches(c) == \E b \in Batches : List(c, b)
CancelBatch(c) == \E b \in Batches : Begin(c, "cancel", b) \/ BeginLoad(c, "cancel", b)
DeleteBatch(c) == \E b \in Batches : Begin(c, "delete", b) \/ BeginLoad(c, "delete", b)

Method(c) == SubmitBatch(c) \/ GetBatch(c) \/ GetTask(c) \/ ListBatches(c)
               \/ CancelBatch(c) \/ DeleteBatch(c)

-----------------------------------------------------------------------------
(* The answers.                                                             *)

\* MUTANT: every exception is answered with NOT_FOUND.
StatusOf_Missing(exception) == "NOT_FOUND"
\* handle_grpc_errors; a CancelledError is no Exception and is not answered.
StatusOf(exception) ==
  CASE exception = "PermissionError" -> "PERMISSION_DENIED"
    [] exception = "ValueError" -> "INVALID_ARGUMENT"
    [] exception = "LookupError" -> "NOT_FOUND"
    [] OTHER -> "INTERNAL"

\* What the client of c may conclude from an answer.
Learns(c, status) ==
  LET r == req[c]
      claims == IF status = "NOT_FOUND" /\ r.id < nextId THEN {"missing"}
                ELSE IF status = "OK" /\ r.op = "cancel" /\ Alone(c) THEN {"cancelled"}
                ELSE IF status = "OK" /\ r.op = "delete" /\ Alone(c) THEN {"gone"}
                ELSE {} IN
  told' = [told EXCEPT ![r.id] = @ \cup claims]

\* _verify_batch_not_None, _verify_task_not_None: the batch is not found.
Missing(c) == Load(c) /\ req'[c].pc = "idle" /\ Learns(c, StatusOf("LookupError"))

\* A transaction fails.  delete_batch that finds no row raises LookupError itself.
Raises(c) ==
  /\ Fail(c)
  /\ Learns(c, StatusOf(IF req[c].pc = "committing" /\ req[c].id \notin DOMAIN db
                        THEN "LookupError" ELSE "Exception"))

Answers(c) ==
  \/ (CreateReturn(c) \/ RememberTask(c) \/ ListReturn(c) \/ Return(c)) /\ Learns(c, "OK")
  \/ Missing(c)
  \/ Raises(c)

\* The turns in between, and those that end without an answer.
Works(c) ==
  \/ Load(c) /\ req'[c].pc # "idle"
  \/ Remember(c) \/ Updated(c) \/ CommitCancel(c) \/ CommitDelete(c) \/ Abandon(c)

GrpcNext ==
  \/ (Restore \/ Crash) /\ Silent
  \/ \E c \in Clients : ((Method(c) \/ Works(c)) /\ Silent) \/ Answers(c)

GrpcSpec == GrpcInit /\ [][GrpcNext]_<<vars, told>>

\* What the event loop or the database can go on with, they do; the service starts.
\* Nothing says that a transaction fails of itself.
Continues(c) ==
  \/ Answers(c) /\ (req[c].pc \in {"created", "loading", "loaded", "listed", "committed"}
                     \/ Deadlocked(c) \/ req[c].id \notin DOMAIN db)
  \/ Works(c) /\ Silent
GrpcFairSpec ==
  GrpcSpec /\ WF_<<vars, told>>(Restore /\ Silent) /\ \A c \in Clients : WF_<<vars, told>>(Continues(c))

-----------------------------------------------------------------------------
(* What a client may rely on.                                               *)

\* CancelBatch "Cancela a execucao das tarefas nao concluidas de um batch",
\* DeleteBatch "Remove os dados do batch": what a client has been told holds in the
\* database from then on, through every other request, failure and restart.
AnswersAreDurable ==
  \A b \in Batches :
    /\ "cancelled" \in told[b] => OpenRow(b) = {}
    /\ told[b] \cap {"gone", "missing"} # {} => b \notin DOMAIN db

\* What a client has been told agrees with what the service serves and schedules
\* from then on: no task of a cancelled batch is open in memory or scheduled, and
\* nothing of a deleted one is left.  (NOT_FOUND promises less: a get_task that read
\* the task before a deletion may still file it.)
AnswersAreServed ==
  up => \A b \in Batches :
    /\ "cancelled" \in told[b] =>
         /\ b \notin DOMAIN scheduled
         /\ b \in DOMAIN cache => OpenIn(objs[cache[b]].status) = {}
         /\ \A t \in Tasks : index[b][t] # None => objs[index[b][t]].status[t] # "open"
    /\ "gone" \in told[b] =>
         b \notin DOMAIN scheduled /\ b \notin DOMAIN cache /\ index[b] = Nowhere

\* Every request ends, whatever rows its statements wait for: two transactions on
\* one batch never keep each other waiting.
RequestsEnd == \A c \in Clients : req[c].pc # "idle" ~> req[c].pc = "idle"
=============================================================================
