-------------------------- MODULE BatchCircularList --------------------------
(***************************************************************************)
(* BatchCircularList and TaskQueue (application/scheduler/                 *)
(* data_strutures.py): the rotation of batches from which dispatchers take *)
(* tasks, with lazy removal of the batches that left it.                   *)
(*                                                                         *)
(* What can go wrong turns on the identity of TaskQueue objects: remove()  *)
(* leaves the object in the rotation until getNext passes it, and whoever  *)
(* was given it keeps it.  The objects are therefore drawn from a pool,    *)
(* and append() takes one that nothing refers to.                          *)
(*                                                                         *)
(* items and _queued_batch_ids change together in append() and remove(),   *)
(* so _queued_batch_ids is DOMAIN items.  The flag of the asyncio.Event is *)
(* cleared just before wait(), so only its waiters matter: pc = "waiting". *)
(* No method but getNext awaits, and it does so only when the rotation is  *)
(* empty: each is one action.  The dispatcher is not in the repository;    *)
(* its actions are the calls the class offers it.                          *)
(***************************************************************************)
EXTENDS Integers, FiniteSets, SequencesExt

CONSTANTS
  Batches,      \* batch ids
  Tasks,        \* task ids
  Submissions,  \* the Batch entities append() is given
  Queues,       \* the pool of TaskQueue objects (bounds how many live at once)
  Dispatchers   \* coroutines that call getNext

ASSUME SubmissionsAssumption ==
  Submissions \subseteq [batch : Batches, tasks : Seq(Tasks)]
\* Task ids are a primary key.
ASSUME TaskIdsAssumption == \A s \in Submissions : IsInjective(s.tasks)

VARIABLES
  queue,   \* self.queue: the rotation
  items,   \* self.items: registered batch id -> its TaskQueue
  tqs,     \* per TaskQueue: its batch, its task ids, and its own deque
  pc,      \* per dispatcher: where it is
  handle,  \* the TaskQueue getNext gave it
  task     \* the task it took from there

vars == <<queue, items, tqs, pc, handle, task>>

None == "none"
Places == {"idle", "ready", "waiting", "given", "working"}
Registered == DOMAIN items
BatchOf(q) == tqs[q].batch

\* The TaskQueues the program can still reach, and one it cannot.
Reachable == ToSet(queue) \cup {handle[d] : d \in Dispatchers} \cup {items[b] : b \in Registered}

-----------------------------------------------------------------------------
Spare == Queues \ Reachable   \* a new TaskQueue

IsLive(q) == BatchOf(q) \in Registered

\* MUTANT: enqueue() does not look whether the task is queued.
Enqueue_Always(dq, t) == Append(dq, t)
Enqueue(dq, t) == IF Contains(dq, t) THEN dq ELSE Append(dq, t)   \* TaskQueue.enqueue

\* MUTANT: append() sets no event.
Woken_Nobody == pc
Woken == [d \in Dispatchers |-> IF pc[d] = "waiting" THEN "ready" ELSE pc[d]]

\* getNext drops what precedes the first live queue and rotates that to the end.
\* MUTANTS: it leaves that one at the head, or pops it as well.
RotateTo_Stay(s, i) == SubSeq(s, i, Len(s))
RotateTo_Pop(s, i) == SubSeq(s, i + 1, Len(s))
RotateTo(s, i) == Append(SubSeq(s, i + 1, Len(s)), s[i])

-----------------------------------------------------------------------------
Init ==
  /\ queue = <<>>
  /\ items = [b \in {} |-> None]
  /\ tqs = [q \in Queues |-> [batch |-> None, tasks |-> {}, deque |-> <<>>]]
  /\ pc = [d \in Dispatchers |-> "idle"]
  /\ handle = [d \in Dispatchers |-> None]
  /\ task = [d \in Dispatchers |-> None]

\* append(batch); a batch that is registered is ignored.
Submit(s) ==
  /\ s.batch \notin Registered
  /\ \E q \in Spare :
       /\ tqs' = [tqs EXCEPT ![q] = [batch |-> s.batch, tasks |-> ToSet(s.tasks),
                                     deque |-> s.tasks]]
       /\ items' = [b \in Registered \cup {s.batch} |-> IF b = s.batch THEN q ELSE items[b]]
       /\ queue' = Append(queue, q)
  /\ pc' = Woken
  /\ UNCHANGED <<handle, task>>

\* remove(batch_id): the TaskQueue stays in the rotation.
RemoveBatch(b) ==
  /\ b \in Registered
  /\ items' = Restrict(items, Registered \ {b})
  /\ UNCHANGED <<queue, tqs, pc, handle, task>>

Ask(d) ==
  /\ pc[d] = "idle"
  /\ pc' = [pc EXCEPT ![d] = "ready"]
  /\ UNCHANGED <<queue, items, tqs, handle, task>>

\* getNext finds a live queue ...
Give(d) ==
  /\ pc[d] = "ready"
  /\ \E i \in DOMAIN queue :
       /\ IsLive(queue[i])
       /\ \A j \in 1..(i - 1) : ~IsLive(queue[j])
       /\ queue' = RotateTo(queue, i)
       /\ handle' = [handle EXCEPT ![d] = queue[i]]
  /\ pc' = [pc EXCEPT ![d] = "given"]
  /\ UNCHANGED <<items, tqs, task>>

\* ... or pops all there is and waits.
Block(d) ==
  /\ pc[d] = "ready"
  /\ \A i \in DOMAIN queue : ~IsLive(queue[i])
  /\ queue' = <<>>
  /\ pc' = [pc EXCEPT ![d] = "waiting"]
  /\ UNCHANGED <<items, tqs, handle, task>>

\* The dispatcher's call of getNext is cancelled, as asyncio.wait_for does.
GiveUp(d) ==
  /\ pc[d] \in {"ready", "waiting"}
  /\ pc' = [pc EXCEPT ![d] = "idle"]
  /\ UNCHANGED <<queue, items, tqs, handle, task>>

\* MUTANT: dequeue() returns None from an empty queue.
Dequeue_NoError(d) ==
  LET dq == tqs[handle[d]].deque IN
  /\ pc[d] = "given"
  /\ task' = [task EXCEPT ![d] = IF dq = <<>> THEN None ELSE Head(dq)]
  /\ tqs' = IF dq = <<>> THEN tqs ELSE [tqs EXCEPT ![handle[d]].deque = Tail(@)]
  /\ pc' = [pc EXCEPT ![d] = "working"]
  /\ UNCHANGED <<handle, queue, items>>
\* dequeue(): the first task, or QueueEmptyError.
Dequeue(d) ==
  LET dq == tqs[handle[d]].deque IN
  /\ pc[d] = "given"
  /\ \/ /\ dq # <<>>
        /\ task' = [task EXCEPT ![d] = Head(dq)]
        /\ tqs' = [tqs EXCEPT ![handle[d]].deque = Tail(@)]
        /\ pc' = [pc EXCEPT ![d] = "working"]
        /\ UNCHANGED handle
     \/ /\ dq = <<>>
        /\ pc' = [pc EXCEPT ![d] = "idle"]
        /\ handle' = [handle EXCEPT ![d] = None]
        /\ UNCHANGED <<tqs, task>>
  /\ UNCHANGED <<queue, items>>

Release(d) ==
  /\ handle' = [handle EXCEPT ![d] = None]
  /\ task' = [task EXCEPT ![d] = None]

Complete(d) ==
  /\ pc[d] = "working"
  /\ Release(d)
  /\ pc' = [pc EXCEPT ![d] = "idle"]
  /\ UNCHANGED <<queue, items, tqs>>

\* requeueTask(task): to the TaskQueue its batch has now.  BatchNotFoundError
\* when it has none, QueueMismatchError when that one does not know the task;
\* after either the task is queued nowhere.
Requeue(d) ==
  LET b == BatchOf(handle[d])
      t == task[d] IN
  /\ pc[d] = "working"
  /\ Release(d)
  /\ \/ /\ b \in Registered
        /\ LET q == items[b] IN
           IF t \in tqs[q].tasks
           THEN /\ tqs' = [tqs EXCEPT ![q].deque = Enqueue(@, t)]
                /\ pc' = [Woken EXCEPT ![d] = "idle"]
           ELSE /\ pc' = [pc EXCEPT ![d] = "idle"]
                /\ UNCHANGED tqs
     \/ /\ b \notin Registered
        /\ pc' = [pc EXCEPT ![d] = "idle"]
        /\ UNCHANGED tqs
  /\ UNCHANGED <<queue, items>>

-----------------------------------------------------------------------------
Service == (\E s \in Submissions : Submit(s)) \/ (\E b \in Batches : RemoveBatch(b))

Dispatcher(d) ==
  \/ Ask(d) \/ Give(d) \/ Block(d) \/ GiveUp(d)
  \/ Dequeue(d) \/ Complete(d) \/ Requeue(d)

Next == Service \/ \E d \in Dispatchers : Dispatcher(d)

Spec == Init /\ [][Next]_vars

-----------------------------------------------------------------------------
\* Every variable has its type, a batch is registered with a TaskQueue of its own,
\* and what a dispatcher holds fits its place.
TypeOK ==
  /\ queue \in Seq(Queues)
  /\ Registered \subseteq Batches
  /\ items \in [Registered -> Queues]
  /\ \A b \in Registered : BatchOf(items[b]) = b
  /\ tqs \in [Queues -> [batch : Batches \cup {None}, tasks : SUBSET Tasks, deque : Seq(Tasks)]]
  /\ pc \in [Dispatchers -> Places]
  /\ handle \in [Dispatchers -> Queues \cup {None}]
  /\ task \in [Dispatchers -> Tasks \cup {None}]
  /\ \A d \in Dispatchers : /\ pc[d] \in {"given", "working"} => handle[d] \in Queues
                            /\ pc[d] = "working" => task[d] \in Tasks

\* No batch is lost: a registered batch has its TaskQueue in the rotation, once,
\* however often the batch was removed and submitted again before getNext
\* cleaned up behind it.
RegisteredBatchesRotate ==
  \A b \in Registered :
    Cardinality({i \in DOMAIN queue : queue[i] = items[b]}) = 1

\* No wake-up is lost: nobody sleeps in getNext while a batch is registered.
NoLostWakeup == \A d \in Dispatchers : pc[d] = "waiting" => Registered = {}

\* Requeueing never queues a task twice, nor on a queue that does not own it,
\* whichever dispatchers hold the task and whichever TaskQueue it came from.
TasksQueuedOnce ==
  \A q \in Queues : IsInjective(tqs[q].deque) /\ ToSet(tqs[q].deque) \subseteq tqs[q].tasks

\* Circular: while a batch stays registered, every TaskQueue that is handed
\* out instead of its own brings its own at least one place nearer.
HandsOut == \E d \in Dispatchers : pc[d] = "ready" /\ pc'[d] = "given"
NearerBy(b, n) ==
  \E i \in DOMAIN queue, j \in DOMAIN queue' :
    queue[i] = items[b] /\ queue'[j] = items[b] /\ j <= i - n
RotationIsFair ==
  [][\A b \in Registered :
       b \in Registered' /\ items'[b] = items[b] =>
         \/ \E d \in Dispatchers : pc[d] = "ready" /\ handle'[d] = items[b]
         \/ NearerBy(b, IF HandsOut THEN 1 ELSE 0)]_vars

\* What the tests say of a removed batch: "getNext will pop the removed batch",
\* so getNext hands out the TaskQueue its batch is registered with.
RemovedQueuesArePopped ==
  [][\A d \in Dispatchers :
       pc[d] = "ready" /\ pc'[d] = "given" =>
         \E b \in Registered : handle'[d] = items[b]]_vars
=============================================================================
