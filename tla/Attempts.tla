------------------------------- MODULE Attempts -------------------------------
(***************************************************************************)
(* The attempts of tasks: GrpcWorkerClient (transport/grpc/worker_client.py)*)
(* that runs them on workers, Task.create_attempt (domain/entities.py) that *)
(* numbers them, and the tables tasks and task_attempts they are merged     *)
(* into when a batch is cancelled (task_to_model, task_attempt_to_model,    *)
(* BaseRepository.update).                                                  *)
(*                                                                          *)
(* Grain.  A turn of the event loop, from one await to the next: a call to  *)
(* a worker is a start and an end; a cancellation is a turn per task, which *)
(* marks the entity and merges what it holds then, and a commit.            *)
(*                                                                          *)
(* External: the dispatcher.  Nothing in src/ calls the client yet; its     *)
(* interface asks the worker first and then runs an attempt.  A dispatcher  *)
(* here dispatches a task that is open, that nobody else dispatches and     *)
(* that has not succeeded, and may set the attempt's started_at, which the  *)
(* table requires and create_attempt leaves out.  The worker sends a text   *)
(* with a success and only then.                                            *)
(*                                                                          *)
(* Left out: logs, finished_at, the worker of an attempt; deletion.         *)
(***************************************************************************)
EXTENDS Integers, Sequences, SequencesExt, FiniteSets

CONSTANTS
  NumTasks,     \* tasks of the batch, in its order
  Runners,      \* dispatches in progress at once
  MaxAttempts,  \* bound on the attempts of a task
  Stamps,       \* whether dispatchers set started_at
  MayFail,      \* whether a cancellation's transaction may be broken off
  MayCrash      \* whether the process may crash

ASSUME BoundsAssumption == NumTasks \in Nat \ {0} /\ MaxAttempts \in Nat \ {0}
ASSUME ChoicesAssumption ==
  Stamps \subseteq BOOLEAN /\ MayFail \in BOOLEAN /\ MayCrash \in BOOLEAN

VARIABLES
  task,      \* the Task entities: open, attempts, text
  saved,     \* table tasks, as committed
  attempts,  \* table task_attempts, as committed: id -> its row
  tx,        \* the transaction of a cancellation, with its view of both tables
  call,      \* per runner: its call
  kept       \* the attempts ever committed, by task and id

vars == <<task, saved, attempts, tx, call, kept>>

Tasks == 1..NumTasks
Ids == 0..(MaxAttempts - 1)
\* TaskAttemptStatus; a final status that the client does not know counts as FAILED.
Outcomes == {"pending", "running", "success", "failed", "timed_out", "cancelled"}

Idle == [pc |-> "idle", task |-> 0, n |-> 0]
NoTx == [at |-> 0, saved |-> <<>>, attempts |-> <<>>, kept |-> {}]

-----------------------------------------------------------------------------
Init ==
  /\ task = [t \in Tasks |-> [open |-> TRUE, attempts |-> <<>>, text |-> FALSE]]
  /\ saved = [t \in Tasks |-> [open |-> TRUE, text |-> FALSE]]
  /\ attempts = [i \in {} |-> 0]
  /\ tx = NoTx
  /\ call = [r \in Runners |-> Idle]
  /\ kept = {}

-----------------------------------------------------------------------------
(* A dispatch.                                                              *)

Succeeded(t) == \E n \in DOMAIN task[t].attempts : task[t].attempts[n].status = "success"

\* request_processing is called ...
Ask(r, t) ==
  /\ call[r].pc = "idle"
  /\ task[t].open /\ ~Succeeded(t) /\ Len(task[t].attempts) < MaxAttempts
  /\ \A q \in Runners : call[q].task # t
  /\ call' = [call EXCEPT ![r] = [pc |-> "asking", task |-> t, n |-> 0]]
  /\ UNCHANGED <<task, saved, attempts, tx, kept>>

\* ... and returns False: the worker refuses, the call fails or has had its five
\* seconds.  Or the dispatcher is cancelled.
Refused(r) ==
  /\ call[r].pc = "asking"
  /\ call' = [call EXCEPT ![r] = Idle]
  /\ UNCHANGED <<task, saved, attempts, tx, kept>>

\* MUTANT: from 1.
NextId_FromOne(t) == Len(task[t].attempts) + 1
\* Task.create_attempt numbers the attempts of a task from 0.
NextId(t) == Len(task[t].attempts)

\* It returns True: the dispatcher makes an attempt and awaits execute_task.
Accepted(r) ==
  LET t == call[r].task IN
  /\ call[r].pc = "asking"
  /\ \E stamped \in Stamps :
       task' = [task EXCEPT ![t].attempts =
                  Append(@, [id |-> NextId(t), status |-> "pending", stamped |-> stamped])]
  /\ call' = [call EXCEPT ![r] = [pc |-> "executing", task |-> t, n |-> NextId(t) + 1]]
  /\ UNCHANGED <<saved, attempts, tx, kept>>

\* Runner r records an outcome in its attempt, and a text or not in the task.
Record(r, status, text) ==
  LET c == call[r] IN
  /\ c.pc = "executing"
  /\ task' = [task EXCEPT ![c.task].attempts[c.n].status = status, ![c.task].text = text]
  /\ call' = [call EXCEPT ![r] = Idle]
  /\ UNCHANGED <<saved, attempts, tx, kept>>

\* execute_task: the worker answers.  Only the stream of an empty file gets that
\* far, because every block of a file carries attempt.id, which never returns.
Answered(r) == \E s \in Outcomes : Record(r, s, s = "success")

\* The call fails: the status is FAILED, the text stays.
Failed(r) == Record(r, "failed", task[call[r].task].text)

\* MUTANT: ExecuteTask has no timeout.
TimedOut_Never(r) == FALSE /\ Record(r, "timed_out", FALSE)
\* The call has had its half hour.
TimedOut(r) == Record(r, "timed_out", task[call[r].task].text)

\* The call is cancelled, by the dispatcher's own cancellation or by gRPC when the
\* stream raises (attempt.id, a file that is not there): CancelledError is not an
\* Exception, nothing is recorded.
Cancelled(r) ==
  /\ call[r].pc = "executing"
  /\ call' = [call EXCEPT ![r] = Idle]
  /\ UNCHANGED <<task, saved, attempts, tx, kept>>

-----------------------------------------------------------------------------
(* A cancellation of the batch, which merges its tasks.                     *)

NextOpen(from) == {t \in Tasks : t >= from /\ task[t].open
                                 /\ \A u \in Tasks : u >= from /\ task[u].open => t <= u}

MergedIds(t) == {a.id : a \in ToSet(task[t].attempts)}
\* What the session holds once task t is merged and flushed: the rows of its
\* attempts are written whosever they were, other rows of the task are orphans.
Merged(rows, t) ==
  LET dropped == {i \in DOMAIN rows : rows[i].task = t} \ MergedIds(t) IN
  [i \in (DOMAIN rows \ dropped) \cup MergedIds(t) |->
     IF i \in MergedIds(t)
     THEN LET n == CHOOSE n \in DOMAIN task[t].attempts : task[t].attempts[n].id = i
          IN  [task |-> t, status |-> task[t].attempts[n].status]
     ELSE rows[i]]

\* MUTANT: task_to_model leaves out the result.
RowOf_NoResult(t) == [open |-> FALSE, text |-> FALSE]
RowOf(t) == [open |-> FALSE, text |-> task[t].text]   \* task_to_model, status CANCELLED

\* MUTANT: the table takes a row without started_at.
Rejected_Never(rows, t) == FALSE
\* An attempt without started_at sets it to NULL in a row that is there already
\* (in a new row the default comes in).
Rejected(rows, t) == \E a \in ToSet(task[t].attempts) : a.id \in DOMAIN rows /\ ~a.stamped

\* cancel_batch or delete_batch gets that far (with every task terminal it has
\* nothing to merge).
Begin ==
  /\ tx = NoTx
  /\ NextOpen(1) # {}
  /\ tx' = [at |-> 1, saved |-> saved, attempts |-> attempts, kept |-> kept]
  /\ UNCHANGED <<task, saved, attempts, call, kept>>

\* The loop's next task: marked in memory, then merged.  When the table refuses a
\* row the transaction fails; the marks stay.
Merge ==
  \E t \in NextOpen(tx.at) :
    /\ tx # NoTx
    /\ task' = [task EXCEPT ![t].open = FALSE]
    /\ tx' = IF Rejected(tx.attempts, t) THEN NoTx
             ELSE [at |-> t + 1,
                   saved |-> [tx.saved EXCEPT ![t] = RowOf(t)],
                   attempts |-> Merged(tx.attempts, t),
                   kept |-> tx.kept \cup ({t} \X MergedIds(t))]
    /\ UNCHANGED <<saved, attempts, call, kept>>

Commit ==
  /\ tx # NoTx
  /\ NextOpen(tx.at) = {}
  /\ saved' = tx.saved
  /\ attempts' = tx.attempts
  /\ kept' = tx.kept
  /\ tx' = NoTx
  /\ UNCHANGED <<task, call>>

\* The database or the caller breaks the transaction off.
Rollback ==
  /\ MayFail /\ tx # NoTx
  /\ tx' = NoTx
  /\ UNCHANGED <<task, saved, attempts, call, kept>>

-----------------------------------------------------------------------------
\* model_to_task, with the attempts as the select has them: in any order.
Loaded(t, order) ==
  [open |-> saved[t].open, text |-> saved[t].text,
   attempts |-> [n \in DOMAIN order |-> [id |-> order[n], stamped |-> TRUE,
                                         status |-> attempts[order[n]].status]]]

RowsOf(t) == {i \in DOMAIN attempts : attempts[i].task = t}

\* The process dies, with its calls and transaction, and the next one reads the tables.
Restart ==
  /\ MayCrash
  /\ \E order \in [Tasks -> UNION {SetToSeqs(RowsOf(t)) : t \in Tasks}] :
       /\ \A t \in Tasks : order[t] \in SetToSeqs(RowsOf(t))
       /\ task' = [t \in Tasks |-> Loaded(t, order[t])]
  /\ tx' = NoTx
  /\ call' = [r \in Runners |-> Idle]
  /\ UNCHANGED <<saved, attempts, kept>>

Runner(r) ==
  \/ \E t \in Tasks : Ask(r, t)
  \/ Refused(r) \/ Accepted(r) \/ Answered(r) \/ Failed(r) \/ TimedOut(r) \/ Cancelled(r)

Next == (\E r \in Runners : Runner(r)) \/ Begin \/ Merge \/ Commit \/ Rollback \/ Restart

\* Both calls carry a deadline, so that a call that nothing else ends is ended.
\* The loop of a cancellation has nothing to wait for but the database.
Fairness ==
  /\ \A r \in Runners : WF_vars(Refused(r)) /\ WF_vars(TimedOut(r))
  /\ WF_vars(Merge) /\ WF_vars(Commit)

Spec == Init /\ [][Next]_vars /\ Fairness

-----------------------------------------------------------------------------
(* What makes it correct.                                                   *)

\* Every variable has its type.
TypeOK ==
  /\ \A t \in Tasks :
       /\ task[t].open \in BOOLEAN /\ task[t].text \in BOOLEAN
       /\ \A n \in DOMAIN task[t].attempts :
            task[t].attempts[n] \in [id : Ids, status : Outcomes, stamped : BOOLEAN]
  /\ saved \in [Tasks -> [open : BOOLEAN, text : BOOLEAN]]
  /\ DOMAIN attempts \subseteq Ids
  /\ attempts \in [DOMAIN attempts -> [task : Tasks, status : Outcomes]]
  /\ kept \subseteq Tasks \X Ids
  /\ \A r \in Runners :
       /\ call[r].pc \in {"idle", "asking", "executing"}
       /\ call[r].pc = "executing" => call[r].n \in DOMAIN task[call[r].task].attempts

\* get_task returns "a task completa (com tentativas e resultado)": what the
\* database had of a task's attempts it still has, whatever is merged later.
AttemptsSurvive == \A k \in kept : k[2] \in DOMAIN attempts /\ attempts[k[2]].task = k[1]

\* execute_task "registra o resultado da execucao na tentativa e na tarefa": a task
\* with an attempt that succeeded has its text, in memory and in the database.
SuccessHasText ==
  /\ \A t \in Tasks : Succeeded(t) => task[t].text
  /\ \A i \in DOMAIN attempts : attempts[i].status = "success" => saved[attempts[i].task].text

\* No call to a worker hangs for ever, and no cancellation does.
CallsEnd ==
  /\ \A r \in Runners : call[r].pc # "idle" ~> call[r].pc = "idle"
  /\ tx # NoTx ~> tx = NoTx
=============================================================================
