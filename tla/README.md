# A TLA+ model of vox-transcribe's core

vox-core is the master node of a distributed transcription system: clients submit
*batches* of audio *tasks*, *workers* register and send heartbeats, and a scheduler is
to bring the two together. Everything runs in one asyncio event loop over a PostgreSQL
database. This directory holds TLA+ modules of its stateful parts, the TLC runs that
check them, and TLAPS proofs of every safety property those runs check.

Paths below are relative to `src/vox-core/src/` of the repository.

## Inventory

| Part | State | Operations | Talks to |
|---|---|---|---|
| `RoundRobinLoadBalancer` (`application/scheduler/load_balancer.py`) | registry of workers, a deque of ids and a set of tombstones per language, the ids of full workers, an event per language, the monitor task | register, unregister, get_worker, mark_worker_as_available, verify_worker, get_registered_worker, start, stop, the heartbeat monitor | called by WorkerServiceImpl and by a dispatcher that is still to be written |
| `BatchCircularList`, `TaskQueue` (`application/scheduler/data_strutures.py`) | rotation of TaskQueues, registry of batches, one event; per TaskQueue its tasks | append, remove, getNext, requeueTask; enqueue, dequeue | called by TaskServiceImpl and by that dispatcher |
| `TaskServiceImpl` (`application/services/task_service.py`) | cached batches and tasks | restore, create, cancel, delete, get_batch, get_task, list | the database, BatchCircularList |
| `WorkerServiceImpl` (`application/services/worker_service.py`) | none of its own | restore, register, shutdown, heartbeat | the database, the load balancer |
| `Database`, repositories (`infrastructure/persistence/`) | the tables | one transaction per `session()`: commit at the end, rollback on an exception | PostgreSQL |
| entities (`domain/entities.py`) | Worker (workload, status, heartbeat), Task, TaskAttempt, Batch: shared mutable objects | is_available, create_attempt, is_finished | everybody |
| `GrpcWorkerClient` (`transport/grpc/worker_client.py`) | none | request_processing, execute_task | workers; nobody calls it yet |
| gRPC servicers, mappers, generated stubs (`transport/grpc/`) | none | one service call per RPC, exceptions mapped to status codes | the services |
| `main.py`, configuration, vox-api, vox-worker | none, or empty | | |

What is hard about it: coroutines interleave at every `await`; entities are shared, so a
change made before an `await` is seen by others before it is durable; database work is
read before and applied to memory after a commit that other requests overlap; both
schedulers remove lazily and sleep on events; heartbeats, expiry and releases of workers
come in any order. `PROJECT.json` lists these hazards one by one, with the line where each
bites and the properties that watch it, or the reason why none does yet.

## The modules

### LoadBalancer.tla

`workers`, `deques`, `tombs` and `full` are the four collections of the class under
shorter names; `expiring` is the rest of the monitor's `expired_ids`. The coroutines that
call `get_worker` are `Dispatchers`: `pc`, `want` and `held` say where each is, the
language it asks for and the worker it was given.

*Grain.* No body of `async with self._lock` awaits, so the lock is never contended: a method
runs in one turn of the event loop and is one action. `get_worker` is two: `Serve` (pops
dead and full slots up to the first live one, rotates that, returns) and `Block` (pops them
all, clears the event, waits). The monitor's loop over expired ids is one turn as well; its
iterations are separate actions that keep all others out. The actions `Register` and
`Reregister` are the two ways WorkerServiceImpl enters a worker; `MarkAvailable` has the
three outcomes of `mark_worker_as_available`.

*Outside.* The repository has no dispatcher. `Request`, `Claim`, `Decline`, `Finish` and
`GiveUp` are how `tests/unit/test_scheduler_load_balancer.py` uses the class: ask, add one
to `current_workload`, later subtract one and call `mark_worker_as_available`, or give up
by `asyncio.wait_for`. `ClaimAtOnce` says whether the workload is added in the same turn as
`get_worker` returns (a direct await) or later (get_worker wrapped in a task). A capacity is any integer:
it is an int32 on the wire and nothing validates it.
A worker's heartbeat is fresh, stale or absent; time is the action `Age`.

### HeartbeatMonitor.tla

`start()` and `stop()` and the tasks they make, on top of LoadBalancer's registry and callers.
`monitor` is the state of each task, `current` is `_monitor_task`, `manager` and `joined` say which
call each manager is in and which task its `stop()` awaits; `_lifecycle_lock` is held exactly while
some `stop()` awaits (`Locked`). A task is asleep between sweeps, cancelling from `cancel()` to its
next turn, or gone; `Dies` is a task ended by somebody else. `Sweep` is LoadBalancer's
`MonitorWake`, possible only while a task is asleep.

### WorkerPool.tla

What the abstract class `LoadBalancer` promises whoever calls it, with none of the means: a
pool of workers with languages and room. A caller is handed *any* worker that is free for its
language, sleeps only when there is none whose room has been announced, and is woken by every
registration or release that makes one free. `LoadBalancer.tla` implements it under `PoolView`
(the registry without heartbeats; capacity minus workload is the room); `deques`, `tombs`,
`full`, `expiring` and the heartbeats are hidden, and heartbeats and the monitor's wake-up are
stuttering steps. The states of the callers are the same on both sides: what the refinement says
is that the lazily cleaned deques never make a difference a caller could see, except in which
free worker it gets (`RotationIsFair` is about that).

### BatchCircularList.tla

`queue` and `items` are the class's rotation and registry (`_queued_batch_ids` always equals
the keys of `items`), `tqs` the contents of the TaskQueue objects. Objects come from a pool,
because what can go wrong here turns on *which* TaskQueue a dispatcher holds after a batch
was removed and submitted again. Every method is one action; `getNext` is `Give` or `Block`.

### TaskService.tla

`db` holds the committed batches, `cache`, `index` and `scheduled` are `_batches`, `_tasks` and the
scheduler's registry, `objs` the shared Batch entities with the status of their tasks, `req` the
requests in progress. A request is a sequence of actions that end where the code awaits the
database: for a cancellation `Begin` (or `BeginLoad`, `Load`, `Remember`), one `Updated` per
task written, `CommitCancel`, `Return`. Tasks are marked in `objs` when the code marks them,
before the update is awaited. `get_task` reads one task as an object of its own and files it in
`index` (`RememberTask`) beside the batch's. Transactions follow PostgreSQL under SQLAlchemy:
written rows stay locked (`WaitsFor`), an update of a row that is gone fails, a deletion of one
that is gone only warns, `Fail` rolls back but leaves the marks, one transaction of a deadlock (a
ring of requests that wait for each other, `Deadlocked`) is aborted in that way, `Abandon` is a request
cancelled by its caller while the session is closed after the commit, or a commit whose reply is lost. `Crash` forgets
everything but `db`, and `Restore` is `restore_pending_batches`.

### TaskGrpcService.tla

`TaskGrpcServiceImpl` over TaskService: which service calls each method makes, and `told`, what
clients may conclude from the answers. `StatusOf` is the mapping of `handle_grpc_errors`; NOT_FOUND
for an id that was given out means the batch is gone. A method answered from memory in the turn
it is called in changes nothing and is no action.

### WorkerService.tla

`table` holds the committed workers, `registry` the load balancer's, `objs` the shared Worker
entities (profile, offline or not, heartbeat), `req` the requests in progress, `gone` the workers
whose shutdown was reported. Beside the requests run what changes the same entities:
heartbeats, time, the monitor, and `HandOut`, the `is_available()` of `get_worker`. A request ends early
before its commit (`Fail`: an exception, or its caller cancels it) or after it (`Abandon`, as in TaskService: the
row is written, the balancer is never told, the process goes on). `broken` is a history variable: what such requests
left behind and nothing has repaired yet, a shutdown its mark on the entity, a registration its row.
`Serial` says whether a worker has at most one request in flight.

### MasterNodeService.tla

`MasterNodeServiceImpl` over WorkerService: a worker that registers learns the `master_id`
(`admitted`) and may then send heartbeats and shut down; a core that comes back with another
`master_id` refuses both until the worker registers again. `told` is the profile a worker was last
told CONNECTION_STATUS_OK for. A refused call changes nothing and is no action.

### Attempts.tla

`GrpcWorkerClient` and what becomes of attempts. `call` is the call each dispatch is in: asking
(`request_processing`), then executing (`execute_task`), which ends with an answer, an error, the
deadline or a cancellation. `task` holds the entities with the attempts `create_attempt` numbers
from 0, `saved` and `attempts` the two tables, where the attempts of all tasks share one key.
A cancellation of the batch is a transaction (`tx`) that merges one task per turn: `Merged` is what
SQLAlchemy's merge of a task with its attempts leaves in `task_attempts` (rows taken over,
orphans deleted), `Rejected` the NOT NULL of `started_at`. `Restart` reads the tables back, with the
attempts in any order. The dispatcher is external: one dispatch of a task at a time, none after a
success. `kept` remembers every attempt that was ever committed.

### How they compose

HeartbeatMonitor extends LoadBalancer, TaskGrpcService extends TaskService and MasterNodeService
extends WorkerService: the runs check the extended modules, so that the services are checked as they are
called. WorkerService sees of the load balancer its registry, TaskService sees of
BatchCircularList its registry; both say so in their heads. The dispatcher that would join LoadBalancer,
BatchCircularList and Attempts is not in the repository, and each of the three has its own
external one.

### The proofs

`RingTheorems` has the lemmas about removing from, appending to and rotating sequences without
duplicates that the two rotations need. `LoadBalancerProofs` has the theorems about the balancer's
state and its rotation, `PoolProofs` the refinement of WorkerPool, `MonitorProofs` the lifecycle,
`BatchProofs` BatchCircularList, `TaskProofs` TaskService and TaskGrpcService, `WorkerProofs`
WorkerService and MasterNodeService, `AttemptProofs` Attempts. The `MC*` modules hold the values of
the constants for TLC.

## The runs

| Run | Instance | Shows |
|---|---|---|
| `LoadBalancer` | 2 workers, 2 languages, 2 callers that claim in a later turn; profiles {pt} with room for 1 and {pt, en} with room for 2 | `SlotsAreUnique`, `TombstonesAreTheDeadSlots`, `NoWorkerIsLost`, `FullSetIsTheParkedWorkers`, `NoLostWakeup`, `WorkloadCountsCallers`, `HandoutsAreSound`, `ImplementsPool` |
| `LoadBalancerLive` | 2 workers, 1 language, 2 callers that claim at once, room for 0 or 1; `FairSpec`, no symmetry | `CapacityIsRespected`, `RotationIsFair`, `WaitersAreServed` |
| `HeartbeatMonitor` | 2 managers, 2 monitor tasks, 2 workers, 1 caller; `MonitorSpec`, no symmetry | `OneMonitor`, `NoOrphan`, `NoSweepAfterStop`, `StopsEnd`, `SilentWorkersExpire` |
| `BatchCircularList` | 2 batches (one of them in two versions), 3 tasks, 3 TaskQueue objects, 2 dispatchers | `RegisteredBatchesRotate`, `NoLostWakeup`, `TasksQueuedOnce`, `RotationIsFair` |
| `TaskGrpcService` | 1 batch of 2 tasks, 3 requests of every kind at a time, failing readings, crashes | `NoBatchIsLost`, `NoGhostWork`, `CacheIsNotBehind`, `AnswersAreDurable`, `AnswersAreServed` |
| `TaskGrpcServiceLive` | 1 batch of 2 tasks, 2 requests at a time, every transaction may fail, every request may be abandoned; `GrpcFairSpec`, no symmetry | `RequestsEnd` |
| `MasterNodeService` | 2 workers, 2 profiles, 2 requests at a time (one per worker) that may fail or be cut off before or after their commit, crashes, restarts with either master_id | `RegistryAgreesWithTable`, `TrackedWorkersCanExpire`, `GoneIsUntracked`, `ConnectedIsTracked` |
| `Attempts` | 2 tasks, 2 dispatches at a time, 2 attempts per task, broken-off cancellations, crashes; `Fairness` | `AttemptsSurvive`, `SuccessHasText`, `CallsEnd` |

Each module's `TypeOK` is checked by one of its runs. Four more runs are expected to find a
violation; each is a disagreement of the code with a sentence of the repository:

* `BatchCircularListResubmit`: `getNext` recognises a removed TaskQueue by its batch id, so a
  batch that is appended again in time brings its removed TaskQueue back, where the test at
  `tests/unit/test_scheduler_DS.py:157` says it is popped. The class allows that sequence;
  TaskServiceImpl appends an id twice only if `restore_pending_batches` runs beside requests.
* `TaskServiceRetry`: `cancel_batch` marks the cached tasks before its transaction commits. If that
  fails, a retry finds nothing left to cancel, writes nothing and reports success; after a restart
  the tasks are scheduled again. The docstring says "Cancel and persist".
* `TaskServiceDelete`: `list_batches` caches what it read although the batch was deleted while it
  went on reading, and `get_batch` finds it there for ever.
* `WorkerServiceOffline`: while `shutdown_worker` awaits the database the worker it marked OFFLINE is
  still in the balancer, and `is_available()` makes it IDLE and hands it out.

*What the passing runs leave out*, because the property fails there or promises nothing:

* `NoGhostWork` and `CacheIsNotBehind` speak of batches that were there when the service started: a
  batch cancelled between its creation's commit and its scheduling is scheduled all the same.
* `CapacityIsRespected` is for callers that claim in the turn `get_worker` returns. With a claim in a later turn
  two callers can be given the same last place; the increment is the dispatcher's, and nothing promises otherwise.
  It speaks of workers with work, as a capacity may be negative.
* A client is `told` only what an answer says that no other request on the batch contested: a
  second cancellation that finds the marks of the first reports success before anything is
  committed, and the first may still roll back.
* In `TaskGrpcService` only readings fail: a cancellation that fails is the finding
  `TaskServiceRetry`, and a creation abandoned after its commit leaves a batch that nobody schedules until
  the next restart.
* `TrackedWorkersCanExpire` and `RegistryAgreesWithTable` name their exceptions. A shutdown that breaks off leaves
  its worker in the registry without a heartbeat, and the monitor passes it over until it is heard of again. A
  registration cut off after its commit leaves the balancer with the old profile until the row is written again or the
  core restarts. `MasterNodeService` lets requests of both kinds break off, and the properties say that
  nothing else has these effects and that they last no longer.
* `Serial` is TRUE in the passing run: a shutdown that overlaps a registration of the same worker
  removes the entity of the latter, and of two first registrations the second may fail after the first has
  replaced the entity. Nothing in the repository says what should come of that.
* `Attempts` runs with `Stamps = {FALSE}`: `create_attempt` leaves `started_at` out. Ids count from 0 in
  each task but are the key of one table, so that merging one task would take over another's rows; what prevents it
  today is that the merge of a namesake sets the NOT NULL column `started_at` to NULL and fails. With
  a dispatcher that sets `started_at` (`Stamps = {TRUE}`) `AttemptsSurvive` does not hold.
* `SuccessHasText` needs the dispatcher's restraint not to run a task again that has succeeded:
  `execute_task` writes the text of any answer.

*Bounds.* Lists and sets are bounded by the instance. `NumBatches` bounds the ids the database
gives out, `Objects`, `Queues` and `Monitors` how many entities, TaskQueues and tasks are in use at
once (an operation that needs one more waits in the model), `Clients`, `Dispatchers`, `Managers` and `Runners` how
many coroutines are inside a method; `MaxAttempts` bounds the attempts of a task. No other counter is
bounded by hand: `workload` is bounded by the number of callers. The lost slots and wake-ups,
duplicates and races listed as hazards need two or three actors and one or two objects: three
requests on one batch are enough for two writers and a reader that overtakes both, two tasks for
two attempts with one id. Every one of the runs' properties is broken at these bounds by a plausible error
in the code: the definitions marked MUTANT are those errors. For all safety properties the proofs
remove the bounds; they still matter for liveness.

*Fairness.* asyncio's loop runs every ready callback, so that what is runnable runs: in `FairSpec` a
caller that is ready in `get_worker`, a release that has begun, and the monitor after its sleep; in
`MonitorFairness` also the last turn of a cancelled task and the `stop()` that awaits it; in `GrpcFairSpec`
(`Continues`) the next turn of a request whose statement waits for no row, the abort of a
deadlock, and the start of the service. In `Attempts` both calls carry a deadline (5 s and 30 min in
the client), so a call that nothing else ends is ended, and a cancellation has nothing to wait for but
the database. Nothing is assumed of workers, of callers' further requests, of the end of work or
of transactions failing by themselves. Strong fairness appears in the balancer only because the
monitor's single turn is split into actions that disable the others while it lasts; in the program they
stay enabled until they run. `WaitersAreServed` therefore says no more than that a caller is served
if a worker *stays* free: others may take that worker each time.

*Deadlock* is checked in every run but `TaskGrpcServiceLive` and the violation runs of TaskService, where
every batch may be deleted and no id be left.

## What is proved

The constants satisfy the assumptions the modules state, and nothing more; every set of them may
be infinite. `ProfilesAssumption`, `ClaimAssumption`, `SubmissionsAssumption`, `OpsAssumption`, `ModeAssumption`,
`BoundsAssumption` and `ChoicesAssumption` give types. `TaskIdsAssumption` says that a submission lists no
task twice, whose id is a primary key. `NoneAssumption` (of LoadBalancer, TaskService and WorkerService) and
`MonitorsAssumption` say that Python's `None` is no worker id, entity, operation or task.

| Theorem | States |
|---|---|
| `TypesAndSlots` | `Spec => [](TypeOK /\ SlotsAreUnique)` |
| `DeadSlots` | `Spec => []TombstonesAreTheDeadSlots` |
| `NobodyIsForgotten` | `Spec => [](NoWorkerIsLost /\ NoLostWakeup)` |
| `FullSetIsExact` | `Spec => []FullSetIsTheParkedWorkers` |
| `WorkloadIsExact` | `Spec => []WorkloadCountsCallers` |
| `SoundHandouts` | `Spec => HandoutsAreSound` |
| `CapacityRespected` | `Spec => []CapacityIsRespected` |
| `BalancerImplementsPool` | `Spec => Pool!Spec` (`ImplementsPool`) |
| `RotationIsRoundRobin` | `Spec => RotationIsFair` |
| `LifecycleRefinesBalancer` | `MonitorSpec => Spec` |
| `LifecycleTyped` | `MonitorSpec => []LifecycleTypeOK` |
| `MonitorIsTended` | `MonitorSpec => [](OneMonitor /\ NoOrphan)` |
| `SweepsNeedAMonitor` | `MonitorSpec => NoSweepAfterStop` |
| `NoBatchIsForgotten` | `Spec => [](TypeOK /\ RegisteredBatchesRotate /\ NoLostWakeup)` of BatchCircularList |
| `NoTaskTwice` | `Spec => []TasksQueuedOnce` |
| `BatchesTakeTurns` | `Spec => RotationIsFair` of BatchCircularList |
| `TasksTyped` | `Spec => []TypeOK` of TaskService |
| `GrpcImplementsService` | `GrpcSpec => Spec` |
| `CacheKeepsUp` | `Spec => []CacheIsNotBehind` |
| `NoGhostIsScheduled` | `Spec /\ [][SeesItThrough]_vars => []NoGhostWork` |
| `WorkIsKept` | `Spec /\ [][SeesItsWorkThrough]_vars => []NoBatchIsLost` |
| `NothingIsLostWithoutDeletions` | `Spec => []NoBatchIsLost`, if `"delete" \notin Ops` and neither creations nor cancellations are in `MayFail` |
| `CancellationsDoNotDeadlock` | `Spec => [](\A c \in Clients : ~Deadlocked(c))`, if `"delete" \notin Ops` |
| `DeletionIsFinal` | `GrpcSpec =>` a batch a client was told is gone or missing never has a row again |
| `AnswersLast` | `GrpcSpec /\ [][SeesItsWorkThrough]_vars => []AnswersAreDurable` |
| `AnswersAgree` | `GrpcSpec /\ [][SeesItsWorkThrough]_vars => []AnswersAreServed` |
| `WorkersTyped` | `Spec => []TypeOK` of WorkerService |
| `GoneStaysGone` | `Spec => []GoneIsUntracked` |
| `NobodyIsImmortal` | `Spec => []TrackedWorkersCanExpire` |
| `BalancerAgreesWithTable` | `Spec => []RegistryAgreesWithTable`, if `Serial` |
| `MasterImplementsService` | `MasterSpec => Spec` |
| `ConnectedStaysTracked` | `MasterSpec => []ConnectedIsTracked`, if `Serial` |
| `AttemptsTyped` | `Spec => []TypeOK` of Attempts |
| `TextsStay` | `Spec => []SuccessHasText` |
| `AttemptsLast` | `Spec => []AttemptsSurvive`, if `TRUE \notin Stamps` |

### The hypotheses

Some properties do not hold of everything the program may meet; their theorems name what must not
happen. Each hypothesis is what the passing run of that property assumes, or weaker, except that the
run `TaskGrpcService` also has deadlocks on a new batch: its three requests and two tasks are too few for the harm
that `SeesItsWorkThrough` leaves out.

* `TRUE \notin Stamps` is the code as it is: `create_attempt` (`domain/entities.py:88`) sets no `started_at`.
* `Serial`: a worker has one request in flight. Nothing in the core enforces it. An overlapping shutdown
  removes the entity of a registration, and two overlapping registrations can end in either order.
* `SeesItThrough`: no request is cancelled by its caller between the commit of a cancellation or
  deletion and what follows it. Transactions may fail: one that fails leaves the scheduler as it
  was, and the batch in the database has its work still to do.
* `SeesItsWorkThrough`: no creation is given up between its commit and its scheduling, and no cancellation or
  deletion of a batch that is there fails, except as the victim of a deadlock on a batch that was there
  when the service started. That a failing cancellation loses work is the finding of `TaskServiceRetry`.
  The exception ends where it does because a batch that is cancelled between its creation's commit and its
  caching has two entities with different marks. Cancellations of it lock its rows in different
  orders, so that several of them can be aborted beside a deletion, and one that succeeds skips what the
  aborted ones have marked. Nothing else has to fail for that; it takes four tasks, three cancellations and a
  deletion. On a batch with one entity only deletions wait for each other, and where one is aborted another is
  left to finish the work (`AnotherDeletes`).

`NothingIsLostWithoutDeletions` needs no hypothesis about steps: without deletions every
transaction takes the rows in the order of the tasks, whoever holds the row one awaits is further
on, and nobody is aborted.

### The balancer

`TypeOK` and `SlotsAreUnique` are inductive together (`Typed`): the deques must be sequences of
distinct ids for `RemoveFirst` and the tombstones to mean anything. `TombstonesAreTheDeadSlots`
is inductive relative to them. `NoWorkerIsLost` and `NoLostWakeup` are not inductive by
themselves: that a blocked caller finds no free worker needs every free worker to have a slot or a
pending release, and that a released worker gets its slot back needs to know whom it wakes. The
strengthening `Reachable` says both of each free worker and language, without the sets `full`
and `Slots` of the properties. `FullSetIsExact` is inductive relative to the tombstones: a slot that
`get_worker` pops is dead, and then its owner does not want it, or alive and full, and then it is noted.
`WorkloadIsExact` counts (`Counted`): that the set of callers on a worker is finite is part of the
invariant, since otherwise its cardinality would mean nothing where there may be infinitely many callers.
`SoundHandouts` needs the tombstones: the live slot that `Serve` takes is not
marked, hence its worker supports the language. `CapacityIsRespected` is proved from `Claimed`:
with `ClaimAtOnce` nobody is between the return of `get_worker` and its claim, so `HasRoom` at the
hand-out bounds the workload after it (`Within`: no work, or no more than the capacity). `BalancerImplementsPool` puts them together: every action is a
step of the pool or a stutter; `Serve` is a `HandOut` because the slot it takes carries no tombstone,
`Block` is a `Sleep` because a free worker without a slot has its release pending (`Reachable`). Each proof has
a step per action; what several actions do (`CallersAfter`, `RegisterDeques`, `UnregisterDeques`, `RotateTo`) is a lemma.

`RotationIsRoundRobin` follows a single slot through a step (`SlotStep`): registrations, releases and removals of other workers
append behind it, take out a slot or leave the deque alone (`RegisterPlace`, `UnregisterPlace`), and
a hand-out that takes a slot before it shifts it by one at least (`RotateToPlace`); a free
worker's own slot carries no tombstone, so that `Serve` cannot skip it and `Block` cannot pop it. That
the returned worker is a new value of `held` needs `EmptyHanded`: who asks holds nothing.

`MonitorIsTended` has the invariant `Tended`: what sleeps is current, what is cancelled is awaited, and one
`stop()` at most is past the lock, with nothing current. None of the three is inductive without the
others: `start()` makes a task only because the lock it holds says that no cancelled one is left. By
`LifecycleRefinesBalancer` the theorems about `Spec` hold with the lifecycle around it.

### The batches in rotation

`NoBatchIsForgotten` has the invariant `Rotates`: no TaskQueue is in the rotation twice, those of the
registered batches are in it, and no dispatcher sleeps while there is one. That `getNext` may drop every queue
before the one it returns needs them to be dead, and a dead one is nobody's registered TaskQueue; that
it may sleep needs the whole rotation to be dead. An object that was removed and is alive
again through its batch (the finding of `BatchCircularListResubmit`) is covered: it is a second TaskQueue, not a
second slot of the registered one. `BatchesTakeTurns` follows one TaskQueue through a step, as
`RotationIsRoundRobin` does, with the same lemmas of RingTheorems.

### The task service

`Sound` strengthens `TypeOK` by what a request knows at each of its awaits: its entity is one of its
batch, the entities in use belong to one batch each, and the rows it has written are of tasks before the
one it is at. From it `EveryTurnIsRegular` derives what all turns have in common (`Turn`): they leave the other
requests alone, mark only tasks of their own batch, and write rows only when they commit. The other
invariants follow from that description, instead of from one case per operation.

* `Single` is behind `CacheKeepsUp`: a batch that was there at the start has one entity, the cached one, on which every
  cancellation and deletion works; each task is marked by one of them at most, and none is open there
  that is finished in the database. `Unborn` keeps batches in creation out of everybody's way.
* `NoGhosts`: a restored batch in the scheduler has work left in the database, or the request that
  ended it is past its commit and will unschedule it. Deadlocks and rollbacks do no harm here.
* `WorkIsKept` needs two facts at once. `AllKept`: unfinished work is scheduled, or about to be, or in the
  hands of a request that will commit it. `Carried`: in every entity the cache has or may come to have, a task
  that is marked but unfinished in the database is in such hands; without it a cancellation that skips a
  marked task could end with the work neither written nor scheduled.
* `AnswersLast` and `AnswersAgree` add what clients were told: `DeletedIsGone` and `CancelledIsWritten` say that
  rows never come back and never reopen, and `Served` that nobody holds an open copy of a cancelled batch, nor
  anything to file of a deleted one. The last is why an answer counts only when nobody else is at work
  on the batch.

### The worker service

`Sound` adds to `TypeOK` that an entity belongs to one worker, whoever holds it (`Owned`): otherwise an update of one
worker's entity could show in another's. `SilenceIsExcused` says that a tracked worker without a heartbeat
is being shut down, or was by a request that broke off, which makes `TrackedWorkersCanExpire` inductive for requests of
any kind and number: where shutdowns and registrations overlap, each entity gets its heartbeat when it is registered.

`Agreed` needs one request at a time per worker (`OneEach`) and follows it: past its commit a registration's row has the profile
that it is about to put into the registry (`Written`), and nothing counts as left behind (`Whole`); a shutdown works on the
entity that is registered (`Held`); and a tracked worker has a row, which is its entity's unless a
registration has committed or was cut off after that (`Tracked`). `Told` says that nothing is at work on a worker that was told it is connected, nor
left behind by a registration of it: every request of a worker takes back what it was told before, and the
answer comes when the request has ended.

### The attempts

`Sound` has beside the types that a dispatched task is in one dispatch, has not succeeded, and has the
attempt being executed. `Truthful` says the property of the entities, of the tables and of the
transaction's view of them at once, as a commit makes one the other. `Surviving` is why
`AttemptsSurvive` holds in spite of ids that coincide: each row's task knows its id (so its merge deletes no
row of it), and an entity that has `started_at` was read from its own row (`Backed`). A merge that the NOT NULL
column accepts (`OwnersStay`) can then neither take over another task's row nor drop one.

### What is only model-checked

Liveness: `WaitersAreServed`, `SilentWorkersExpire`, `StopsEnd`, `RequestsEnd` and `CallsEnd` rest on fairness, hence
on `ENABLED`, which is out of the prover's reach. The violation runs are TLC's alone, too.

## What is not modelled

* The dispatcher: nothing in the repository takes batches from the list, workers from the balancer and calls the worker
  client. Properties that need it (executions of a deleted batch, a rotation of drained TaskQueues) have
  no code to be true of.
* Requests beside a restore, and the paging of restore and list: the database's order is undefined and nothing says
  whether the server accepts calls before it has restored.
* Connection pool limits and the loss of the database connection other than as a failing transaction.
* Mappers between messages, entities and rows, but for the fields the modules carry (status,
  result text, attempts, a worker's profile): pure conversions without state.
* Attributes nothing reads back: logs, durations, timestamps other than whether `started_at` is set.
* `get_by_status`, `get_pending_tasks`, `current_attempt`, `completed_tasks`, `cancel_tasks`: not called.
* Interfaces (no code), generated code, `main.py` (a demonstration), configuration, vox-api and vox-worker.

## Plan

Written, in this order: LoadBalancer (the most intricate state), its proofs, BatchCircularList,
TaskService, WorkerService, WorkerPool and the refinement; then HeartbeatMonitor, Attempts,
`get_task` and its index, the two servicers, the proofs about rotation, monitor and batches, and those
about the two services and the attempts. What is left:

1. Theorems: the properties of TaskService without `SeesItsWorkThrough`, as far as they hold: which batches may
   lose work after a failing cancellation, and until when.
2. When the repository has a dispatcher: a module that composes BatchCircularList, LoadBalancer and
   Attempts around it, in place of the three external ones.
