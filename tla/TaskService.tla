----------------------------- MODULE TaskService -----------------------------
(***************************************************************************)
(* TaskServiceImpl (application/services/task_service.py): batches in the  *)
(* database, their cached copies, and their place in the scheduler, under  *)
(* concurrent requests, failing transactions and crashes.                  *)
(*                                                                         *)
(* Grain.  A request runs in turns of the event loop that end where it     *)
(* awaits the database; each turn is an action.  What a transaction did is *)
(* visible to others from its commit on (database.session commits when the *)
(* body ends, rolls back when it raises), so its writes are kept in dirty  *)
(* and applied there.  PostgreSQL keeps a row that a transaction has       *)
(* written locked until that ends, aborts one of those that wait for each  *)
(* other, and fails an update of a row that is gone.  An update that finds *)
(* the task cancelled already changes nothing and is not sent (merge).     *)
(* A cancellation with nothing to write has the turns of one that writes.  *)
(*                                                                         *)
(* Batch entities are objects: the cache, the scheduler and the requests   *)
(* share them, and the marks of a cancellation are made on them.           *)
(* _enqueue_pending_tasks wraps the same Task objects in a new Batch, so   *)
(* the scheduler's entry is the object with a set of its tasks.  The       *)
(* scheduler is the registry that BatchCircularList keeps (its items).     *)
(*                                                                         *)
(* A Task read alone, by get_task, is an object as well, of which only the *)
(* status of that task counts.                                             *)
(*                                                                         *)
(* Left out: the attributes of a task besides its status, which is open,   *)
(* cancelled or done (SUCCEEDED or FAILED).  A task that is done became so *)
(* in an earlier life of the database: nothing in the repository persists  *)
(* a result yet.                                                           *)
(***************************************************************************)
EXTENDS Integers, FiniteSets, Functions

CONSTANTS
  NumBatches,  \* bound on the ids the database gives out
  NumTasks,    \* tasks of a batch
  Objects,     \* pool of Batch entities (bounds how many live at once)
  Clients,     \* requests in flight at once
  Ops,         \* the requests that come
  MayFail,     \* those whose transaction may fail, or be cancelled by the caller
  MayCrash     \* whether the process may crash

ASSUME BoundsAssumption == NumBatches \in Nat /\ NumTasks \in Nat \ {0}
ASSUME OpsAssumption ==
  /\ Ops \subseteq {"create", "cancel", "delete", "get", "task", "list"}
  /\ MayFail \subseteq Ops
  /\ MayCrash \in BOOLEAN

VARIABLES
  db,         \* committed batches: id -> status of each task
  nextId,     \* the next id the database gives out
  up,         \* whether the service runs (and has restored its batches)
  cache,      \* self._batches: id -> object
  index,      \* self._tasks: per batch and task, the object get_task returns
  scheduled,  \* scheduler.items: id -> object and the tasks queued with it
  objs,       \* the entities: the id and the task statuses of each object
  req,        \* per client: its request
  restored,   \* ids of the batches the service has restored when it started
  settled     \* ids whose cancellation or deletion has been reported done

memory == <<cache, index, scheduled, objs>>
history == <<restored, settled>>
vars == <<db, nextId, up, memory, req, history>>

Tasks == 1..NumTasks
Batches == 1..NumBatches
None == "none"
ASSUME NoneAssumption == None \notin Objects \cup Ops
Statuses == {"open", "cancelled", "done"}
Unused == [id |-> 0, status |-> [t \in Tasks |-> "done"]]

\* idle.  created: committed, not yet remembered.  loading, listing: reading;
\* loaded, listed: read, not yet remembered.  marking: the update of task at is
\* awaited; dirty are the tasks whose rows the transaction has written.
\* committing: the last await of the transaction.  committed: the turn after it.
Places == {"idle", "created", "loading", "loaded", "listed", "marking", "committing", "committed"}
NoRequest == [op |-> None, pc |-> "idle", id |-> 0, obj |-> None, dirty |-> {}, at |-> 0]

-----------------------------------------------------------------------------
OpenIn(statuses) == {t \in Tasks : statuses[t] = "open"}
Put(f, k, v) == [x \in DOMAIN f \cup {k} |-> IF x = k THEN v ELSE f[x]]
Without(f, k) == Restrict(f, DOMAIN f \ {k})
Idle(c) == up /\ req[c].pc = "idle"

\* Objects the process still refers to, and one it does not.
Live == {cache[b] : b \in DOMAIN cache} \cup {index[b][t] : b \in Batches, t \in Tasks} \cup {scheduled[b].obj : b \in DOMAIN scheduled}
          \cup {req[c].obj : c \in Clients}
Fresh(o) == o \in Objects \ Live

\* MUTANT: a created batch is not scheduled.
Enqueue_Not(b, o) == scheduled
\* scheduler.append: a batch that is registered is ignored.
Enqueue(b, o) ==
  IF b \in DOMAIN scheduled THEN scheduled ELSE Put(scheduled, b, [obj |-> o, tasks |-> Tasks])

Nowhere == [t \in Tasks |-> None]
Everywhere(o) == [t \in Tasks |-> o]

Becomes(c, r) == req' = [req EXCEPT ![c] = r]

\* _remember_batch
Remembers(b, o) ==
  /\ cache' = Put(cache, b, o)
  /\ index' = [index EXCEPT ![b] = Everywhere(o)]
\* MUTANT: the tasks stay in the index.
Forgets_Batch(b) == cache' = Without(cache, b) /\ UNCHANGED index
\* delete_batch: self._batches.pop, _forget_batch_tasks
Forgets(b) ==
  /\ cache' = Without(cache, b)
  /\ index' = [index EXCEPT ![b] = Nowhere]

-----------------------------------------------------------------------------
\* A new process, and a database that may hold batches from before: whatever
\* was done then, the service starts by restoring them.
Init ==
  /\ nextId \in 1..(NumBatches + 1)
  /\ db \in [1..(nextId - 1) -> [Tasks -> {"open", "done"}]]
  /\ up = FALSE
  /\ cache = [b \in {} |-> None]
  /\ index = [b \in Batches |-> Nowhere]
  /\ scheduled = [b \in {} |-> None]
  /\ objs = [o \in Objects |-> Unused]
  /\ req = [c \in Clients |-> NoRequest]
  /\ restored = {}
  /\ settled = {}

\* restore_pending_batches(), which nothing runs beside: every batch is cached,
\* those with unfinished tasks are scheduled with these.
Restore ==
  /\ ~up
  /\ up' = TRUE
  /\ \E new \in Injection(DOMAIN db, Objects) :
       /\ cache' = new
       /\ index' = [b \in Batches |-> IF b \in DOMAIN db THEN Everywhere(new[b]) ELSE Nowhere]
       /\ objs' = [o \in Objects |->
                     IF \E b \in DOMAIN db : new[b] = o
                     THEN LET b == CHOOSE b \in DOMAIN db : new[b] = o
                          IN  [id |-> b, status |-> db[b]]
                     ELSE Unused]
       /\ scheduled' = [b \in {x \in DOMAIN db : OpenIn(db[x]) # {}} |->
                          [obj |-> new[b], tasks |-> OpenIn(db[b])]]
  /\ restored' = DOMAIN db
  /\ UNCHANGED <<db, nextId, req, settled>>

\* Nothing of the process is left; a transaction that has not committed is undone.
Crash ==
  /\ MayCrash /\ up
  /\ up' = FALSE
  /\ cache' = [b \in {} |-> None]
  /\ index' = [b \in Batches |-> Nowhere]
  /\ scheduled' = [b \in {} |-> None]
  /\ objs' = [o \in Objects |-> Unused]
  /\ req' = [c \in Clients |-> NoRequest]
  /\ restored' = {}
  /\ UNCHANGED <<db, nextId, settled>>

-----------------------------------------------------------------------------
\* create_batch: the transaction, with the entity read back in it ...
Create(c) ==
  /\ "create" \in Ops /\ Idle(c)
  /\ nextId \in Batches
  /\ nextId' = nextId + 1
  /\ db' = Put(db, nextId, [t \in Tasks |-> "open"])
  /\ \E o \in Objects :
       /\ Fresh(o)
       /\ objs' = [objs EXCEPT ![o] = [id |-> nextId, status |-> [t \in Tasks |-> "open"]]]
       /\ Becomes(c, [NoRequest EXCEPT !.op = "create", !.pc = "created", !.id = nextId, !.obj = o])
  /\ UNCHANGED <<up, cache, index, scheduled, history>>

\* ... and what follows its commit.
CreateReturn(c) ==
  LET r == req[c] IN
  /\ r.pc = "created"
  /\ Remembers(r.id, r.obj)
  /\ scheduled' = Enqueue(r.id, r.obj)
  /\ Becomes(c, NoRequest)
  /\ UNCHANGED <<db, nextId, up, objs, history>>

-----------------------------------------------------------------------------
(* cancel_batch and delete_batch: one turn per task that is not terminal.   *)

\* The task the loop of _cancel_unfinished_tasks comes to next, if any.
NextOpen(o, from) == {t \in OpenIn(objs[o].status) :
                        t >= from /\ \A u \in OpenIn(objs[o].status) : u >= from => t <= u}

\* Client c goes on in that loop: it marks the next task and awaits its update,
\* or awaits the end of the transaction.
Sweep(c, op, b, o, from, dirty) ==
  LET r == [op |-> op, pc |-> "marking", id |-> b, obj |-> o, dirty |-> dirty, at |-> from] IN
  \/ \E t \in NextOpen(o, from) :
       /\ objs' = [objs EXCEPT ![o].status[t] = "cancelled"]
       /\ Becomes(c, [r EXCEPT !.at = t])
  \/ /\ NextOpen(o, from) = {}
     /\ Becomes(c, [r EXCEPT !.pc = "committing", !.at = 0])
     /\ UNCHANGED objs

\* _require_batch finds the batch in the cache ...
Begin(c, op, b) ==
  /\ op \in Ops /\ Idle(c)
  /\ b \in DOMAIN cache
  /\ Sweep(c, op, b, cache[b], 1, {})
  /\ UNCHANGED <<db, nextId, up, cache, index, scheduled, history>>

\* ... or, as get_batch does, has to read it.
BeginLoad(c, op, b) ==
  /\ op \in Ops /\ Idle(c)
  /\ b \notin DOMAIN cache
  /\ Becomes(c, [NoRequest EXCEPT !.op = op, !.pc = "loading", !.id = b])
  /\ UNCHANGED <<db, nextId, up, memory, history>>

\* get_task, of a task that is not in the index.
BeginTask(c, b, t) ==
  /\ "task" \in Ops /\ Idle(c)
  /\ index[b][t] = None
  /\ Becomes(c, [NoRequest EXCEPT !.op = "task", !.pc = "loading", !.id = b, !.at = t])
  /\ UNCHANGED <<db, nextId, up, memory, history>>

\* MUTANT: the entity that is read does not get its id.
Read_NoId(r) == [id |-> 0, status |-> db[r.id]]
\* What the request reads: the batch, or a task alone.
Read(r) ==
  [id |-> r.id, status |-> IF r.op = "task" THEN [Unused.status EXCEPT ![r.at] = db[r.id][r.at]]
                           ELSE db[r.id]]

\* The entity as the database has it; LookupError or None when it does not.
Load(c) ==
  LET r == req[c] IN
  /\ r.pc = "loading"
  /\ \/ /\ r.id \in DOMAIN db
        /\ \E o \in Objects :
             /\ Fresh(o)
             /\ objs' = [objs EXCEPT ![o] = Read(r)]
             /\ Becomes(c, [r EXCEPT !.pc = "loaded", !.obj = o])
     \/ /\ r.id \notin DOMAIN db
        /\ Becomes(c, NoRequest)
        /\ UNCHANGED objs
  /\ UNCHANGED <<db, nextId, up, cache, index, scheduled, history>>

\* get_batch caches what it read, over whatever has been cached meanwhile.
Remember(c) ==
  LET r == req[c] IN
  /\ r.pc = "loaded" /\ r.op # "task"
  /\ Remembers(r.id, r.obj)
  /\ \/ r.op = "get" /\ Becomes(c, NoRequest) /\ UNCHANGED objs
     \/ r.op # "get" /\ Sweep(c, r.op, r.id, r.obj, 1, {})
  /\ UNCHANGED <<db, nextId, up, scheduled, history>>

\* get_task does the same with its task.
RememberTask(c) ==
  LET r == req[c] IN
  /\ r.pc = "loaded" /\ r.op = "task"
  /\ index' = [index EXCEPT ![r.id][r.at] = r.obj]
  /\ Becomes(c, NoRequest)
  /\ UNCHANGED <<db, nextId, up, cache, scheduled, objs, history>>

\* The statement that c awaits needs a row that the transaction of d has locked.
WaitsFor(c, d) ==
  /\ c # d /\ req[c].id = req[d].id
  /\ \/ req[c].pc = "marking" /\ req[c].at \in req[d].dirty
     \/ req[c].pc = "committing" /\ req[c].op = "delete" /\ req[d].dirty # {}
Waits(c) == \E d \in Clients : WaitsFor(c, d)
\* c is one of those that wait for each other, in a ring: it is in every set that holds
\* whom it waits for and, with anyone, whom that one waits for.
AwaitedBy(c) == {d \in Clients : WaitsFor(c, d)}
Deadlocked(c) ==
  \A S \in SUBSET Clients :
    (AwaitedBy(c) \subseteq S /\ \A d \in S : AwaitedBy(d) \subseteq S) => c \in S

\* task_repository.update returns.
Updated(c) ==
  LET r == req[c]
      written == IF db[r.id][r.at] = "cancelled" THEN {} ELSE {r.at} IN
  /\ r.pc = "marking"
  /\ r.id \in DOMAIN db /\ ~Waits(c)
  /\ Sweep(c, r.op, r.id, r.obj, r.at + 1, r.dirty \cup written)
  /\ UNCHANGED <<db, nextId, up, cache, index, scheduled, history>>

Written(r) == [t \in Tasks |-> IF t \in r.dirty THEN "cancelled" ELSE db[r.id][t]]

CommitCancel(c) ==
  LET r == req[c] IN
  /\ r.op = "cancel" /\ r.pc = "committing"
  /\ db' = IF r.id \in DOMAIN db THEN [db EXCEPT ![r.id] = Written(r)] ELSE db
  /\ Becomes(c, [r EXCEPT !.pc = "committed", !.dirty = {}])
  /\ UNCHANGED <<nextId, up, memory, history>>

\* batch_repository.delete and the commit.  A batch that went after delete() had
\* read it is deleted again: a DELETE that finds no row only warns.
CommitDelete(c) ==
  LET r == req[c] IN
  /\ r.op = "delete" /\ r.pc = "committing"
  /\ ~Waits(c)
  /\ db' = Without(db, r.id)
  /\ Becomes(c, [r EXCEPT !.pc = "committed", !.dirty = {}])
  /\ UNCHANGED <<nextId, up, memory, history>>

\* MUTANT: the session is closed without a rollback, so that the locks stay.
RolledBack_Not(r) == [NoRequest EXCEPT !.id = r.id, !.dirty = r.dirty]
RolledBack(r) == NoRequest

\* The transaction fails and rolls back: because the batch it works on is gone,
\* because the database picks it to end a deadlock, or because the database or
\* the caller breaks it off.  The marks stay.
Fail(c) ==
  LET r == req[c] IN
  /\ \/ r.pc \in {"loading", "loaded", "listed", "marking", "committing"} /\ r.op \in MayFail
     \/ r.pc = "marking" /\ r.id \notin DOMAIN db
     \/ r.pc = "committing" /\ r.op = "delete" /\ r.id \notin DOMAIN db
     \/ Deadlocked(c)
  /\ Becomes(c, RolledBack(r))
  /\ UNCHANGED <<db, nextId, up, memory, history>>

\* The request is cancelled by its caller after the commit, while the session is
\* being closed, or the commit loses its reply: what follows it never runs.
Abandon(c) ==
  /\ req[c].pc \in {"created", "committed"} /\ req[c].op \in MayFail
  /\ Becomes(c, NoRequest)
  /\ UNCHANGED <<db, nextId, up, memory, history>>

\* MUTANT: the batch stays in the scheduler.
Unscheduled_Kept(b) == scheduled
Unscheduled(b) == Without(scheduled, b)   \* _remove_from_scheduler

RemembersAfter(r) == IF r.op = "delete" THEN Forgets(r.id) ELSE Remembers(r.id, r.obj)

\* Nobody else is at work on the batch of c.
Alone(c) == \A d \in Clients \ {c} : req[d].id # req[c].id

\* What follows the commit of either.  A success counts as settled when nobody
\* else is at work on the batch: a second cancellation finds every task marked and
\* succeeds before the first one's transaction has ended.
Return(c) ==
  LET r == req[c] IN
  /\ r.pc = "committed"
  /\ scheduled' = Unscheduled(r.id)
  /\ RemembersAfter(r)
  /\ settled' = IF Alone(c) THEN settled \cup {r.id} ELSE settled
  /\ Becomes(c, NoRequest)
  /\ UNCHANGED <<db, nextId, up, objs, restored>>

-----------------------------------------------------------------------------
\* list_batches, for a page of one batch: it always reads the database ...
List(c, b) ==
  /\ "list" \in Ops /\ Idle(c)
  /\ b \in DOMAIN db
  /\ \E o \in Objects :
       /\ Fresh(o)
       /\ objs' = [objs EXCEPT ![o] = [id |-> b, status |-> db[b]]]
       /\ Becomes(c, [NoRequest EXCEPT !.op = "list", !.pc = "listed", !.id = b, !.obj = o])
  /\ UNCHANGED <<db, nextId, up, cache, index, scheduled, history>>

\* MUTANT: what was read goes over what is cached.
Kept_Read(r) == r.obj
\* ... and caches what it read unless the batch is cached by then; the tasks of
\* the one it keeps go to the index again.
Kept(r) == IF r.id \in DOMAIN cache THEN cache[r.id] ELSE r.obj
ListReturn(c) ==
  LET r == req[c] IN
  /\ r.pc = "listed"
  /\ Remembers(r.id, Kept(r))
  /\ Becomes(c, NoRequest)
  /\ UNCHANGED <<db, nextId, up, scheduled, objs, history>>

-----------------------------------------------------------------------------
Client(c) ==
  \/ Create(c) \/ CreateReturn(c)
  \/ \E b \in Batches : \/ \E op \in {"cancel", "delete"} : Begin(c, op, b)
                        \/ \E op \in {"cancel", "delete", "get"} : BeginLoad(c, op, b)
                        \/ \E t \in Tasks : BeginTask(c, b, t)
                        \/ List(c, b)
  \/ Load(c) \/ Remember(c) \/ RememberTask(c) \/ Updated(c) \/ Fail(c) \/ Abandon(c)
  \/ CommitCancel(c) \/ CommitDelete(c) \/ Return(c) \/ ListReturn(c)

Next == Restore \/ Crash \/ \E c \in Clients : Client(c)

Spec == Init /\ [][Next]_vars

-----------------------------------------------------------------------------
(* What makes the service correct.                                          *)

\* Every variable has its type; cache, scheduler and, from its reading on, a request
\* have an entity of the batch they stand for.
TypeOK ==
  /\ nextId \in 1..(NumBatches + 1)
  /\ DOMAIN db \subseteq 1..(nextId - 1)
  /\ db \in [DOMAIN db -> [Tasks -> Statuses]]
  /\ up \in BOOLEAN
  /\ DOMAIN cache \subseteq Batches /\ cache \in [DOMAIN cache -> Objects]
  /\ \A b \in DOMAIN cache : objs[cache[b]].id = b
  /\ DOMAIN scheduled \subseteq Batches
  /\ scheduled \in [DOMAIN scheduled -> [obj : Objects, tasks : SUBSET Tasks]]
  /\ \A b \in DOMAIN scheduled : objs[scheduled[b].obj].id = b
  /\ objs \in [Objects -> [id : Batches \cup {0}, status : [Tasks -> Statuses]]]
  /\ index \in [Batches -> [Tasks -> Objects \cup {None}]]
  /\ restored \subseteq Batches /\ settled \subseteq Batches
  /\ \A c \in Clients :
       /\ req[c].pc \in Places
       /\ req[c].pc # "idle" => up /\ req[c].op \in Ops /\ req[c].id \in Batches
       /\ req[c].pc \notin {"idle", "loading"} => objs[req[c].obj].id = req[c].id

At(b, ops) == \E c \in Clients : req[c].id = b /\ req[c].op \in ops
OpenRow(b) == IF b \in DOMAIN db THEN OpenIn(db[b]) ELSE {}

\* No persisted work is lost: a batch whose tasks the database has as unfinished
\* is scheduled with them, from its restoration on, but for the requests still
\* at work on it ("Restore persisted batches and enqueue unfinished tasks").
NoBatchIsLost ==
  up => \A b \in DOMAIN db :
          \/ OpenRow(b) = {}
          \/ b \in DOMAIN scheduled /\ OpenRow(b) \subseteq scheduled[b].tasks
          \/ At(b, {"create", "cancel", "delete"})

\* No batch that was there when the service started keeps a place in the scheduler
\* once it is cancelled or deleted.  (A batch cancelled while its creator has yet to
\* schedule it does.)
NoGhostWork ==
  up => \A b \in DOMAIN scheduled \cap restored :
          scheduled[b].tasks \cap OpenRow(b) # {} \/ At(b, {"cancel", "delete"})

\* Nor is the cached copy of such a batch behind the database: no task is open in
\* memory that is finished in the database.
CacheIsNotBehind ==
  up => \A b \in DOMAIN cache \cap restored \cap DOMAIN db :
          OpenIn(objs[cache[b]].status) \subseteq OpenRow(b) \/ At(b, {"cancel", "delete"})

\* delete_batch "Remove os dados do batch": once the row is gone, and no request
\* is at work on the batch, the service does not have it either.
DeletedIsForgotten ==
  \A b \in DOMAIN cache : b \in DOMAIN db \/ \E c \in Clients : req[c].id = b

\* "Cancel and persist tasks that have not reached a terminal state": when
\* cancel_batch or delete_batch has reported success, no task of the batch is
\* left unfinished in the database, so that no restart schedules it again.
SettledIsDurable == \A b \in settled : OpenRow(b) = {}
=============================================================================
