---------------------------- MODULE LoadBalancer ----------------------------
(***************************************************************************)
(* RoundRobinLoadBalancer (application/scheduler/load_balancer.py): the    *)
(* registry of connected workers, one lazily cleaned deque of worker ids   *)
(* per language, and the coroutines that wait in get_worker.               *)
(*                                                                         *)
(* Grain.  No body of "async with self._lock" awaits anything, so the lock *)
(* is free whenever the event loop picks another task and taking it never  *)
(* suspends: every method runs from its call (or from the end of           *)
(* event.wait()) to its return or next wait() in one turn of the loop, and *)
(* is one action.  The heartbeat monitor drops its expired workers one     *)
(* after the other in one turn; the drops are separate actions here and    *)
(* "expiring" keeps every other action out until the last one.             *)
(*                                                                         *)
(* Left out.  The flag of an asyncio.Event: get_worker clears it just      *)
(* before wait(), so only its list of waiters matters, which is            *)
(* {d : pc[d] = "waiting" /\ want[d] = language}.  Worker.status:          *)
(* is_available() recomputes it and nothing in this class reads it.        *)
(*                                                                         *)
(* The repository has no dispatcher yet.  The actions of one are taken     *)
(* from the way the tests drive this class: await get_worker, add one to   *)
(* current_workload, later subtract one and mark_worker_as_available.      *)
(***************************************************************************)
EXTENDS Integers, FiniteSets, SequencesExt

CONSTANTS
  Workers,      \* worker ids
  Languages,    \* languages a worker can support and a caller can ask for
  Dispatchers,  \* coroutines that call get_worker, one request at a time each
  Profiles,     \* what a worker can announce when it registers
  ClaimAtOnce   \* TRUE: the caller adds its workload in the turn get_worker
                \* returns (a direct await); FALSE: in a later turn (get_worker
                \* wrapped in a task, as asyncio.wait_for and gather do)

\* The capacity is whatever the worker sends: nothing checks that it is positive.
ASSUME ProfilesAssumption ==
  Profiles \subseteq [langs : SUBSET Languages, capacity : Int]
ASSUME ClaimAssumption == ClaimAtOnce \in BOOLEAN

VARIABLES
  workers,        \* self.workers: a function from the registered ids to entities
  deques,         \* self.language_deques
  tombs,          \* self.to_be_removed_worker_id_sets
  full,           \* self.full_worker_id_set
  expiring,       \* the rest of the monitor's expired_ids
  pc, want, held  \* per dispatcher: where it is, its language, its worker

balancer == <<deques, tombs, full>>
callers == <<pc, want, held>>
vars == <<workers, deques, tombs, full, expiring, pc, want, held>>

None == "none"
ASSUME NoneAssumption == None \notin Workers
HeartbeatAges == {"fresh", "stale", "none"}   \* "none": worker.heartbeat is None
Entities == [langs : SUBSET Languages, capacity : Int, workload : Int,
             heartbeat : HeartbeatAges]

\* idle: no request.  ready: inside get_worker and runnable.  waiting: in
\* event.wait().  offered: get_worker returned, workload not yet added.
\* running: workload added.  detached: as running, but the registry no longer
\* holds the entity this caller counts on.  released: workload subtracted,
\* mark_worker_as_available not yet called.
Places == {"idle", "ready", "waiting", "offered", "running", "detached", "released"}

NewEntity(p) == [langs |-> p.langs, capacity |-> p.capacity, workload |-> 0,
                 heartbeat |-> "fresh"]
IsAvailable(e) == e.workload < e.capacity
Registered == DOMAIN workers
Supports(w, l) == w \in Registered /\ l \in workers[w].langs
Holding(w) == {d \in Dispatchers : held[d] = w}

-----------------------------------------------------------------------------
(* The three collections as each method leaves them, as functions of what   *)
(* they were, so that two calls in one turn compose.                        *)

\* MUTANT: the entity of a re-registration keeps the workload of the old one.
Put_KeepsLoad(f, w, e) ==
  [x \in DOMAIN f \cup {w} |->
     IF x # w THEN f[x]
     ELSE IF w \in DOMAIN f THEN [e EXCEPT !.workload = f[w].workload] ELSE e]
Put(f, w, e) == [x \in DOMAIN f \cup {w} |-> IF x = w THEN e ELSE f[x]]

\* MUTANT: register() appends without looking for a slot to reuse.
RegisterDeques_NoReuse(qs, w, old, new) ==
  [l \in Languages |-> IF l \in new THEN Append(qs[l], w)
                       ELSE IF l \in old THEN RemoveFirst(qs[l], w) ELSE qs[l]]

\* register(), old: the languages of the entity it replaces ({} when none).
RegisterDeques(qs, w, old, new) ==
  [l \in Languages |->
     IF l \in new THEN IF Contains(qs[l], w) THEN qs[l] ELSE Append(qs[l], w)
     ELSE IF l \in old THEN RemoveFirst(qs[l], w) ELSE qs[l]]

\* MUTANT: a reused slot keeps its tombstone.
ClearTombs_Keep(ts, w, ls) == ts
ClearTombs(ts, w, ls) == [l \in Languages |-> IF l \in ls THEN ts[l] \ {w} ELSE ts[l]]

\* _unregister(): a slot at the head goes at once, another one is marked.
AtHead(q, w) == q # <<>> /\ Head(q) = w

UnregisterDeques(qs, w, ls) ==
  [l \in Languages |-> IF l \in ls /\ AtHead(qs[l], w) THEN Tail(qs[l]) ELSE qs[l]]

UnregisterTombs(qs, ts, w, ls) ==
  [l \in Languages |->
     IF l \in ls /\ ~AtHead(qs[l], w) /\ Contains(qs[l], w) THEN ts[l] \cup {w}
     ELSE ts[l]]

\* The callers after an event of ls is set and the entity of w is replaced
\* (or dropped); w = None when it stays.
CallersAfter(w, ls) ==
  [d \in Dispatchers |->
     IF pc[d] = "waiting" /\ want[d] \in ls THEN "ready"
     ELSE IF held[d] = w /\ pc[d] \in {"offered", "running"} THEN "detached"
     ELSE pc[d]]

LanguagesOf(w) == IF w \in Registered THEN workers[w].langs ELSE {}
\* MUTANT: a registration sets no event.
WakesFor_Nobody(e) == {}
WakesFor(e) == IF IsAvailable(e) THEN e.langs ELSE {}

-----------------------------------------------------------------------------
Init ==
  /\ workers = [w \in {} |-> None]
  /\ deques = [l \in Languages |-> <<>>]
  /\ tombs = [l \in Languages |-> {}]
  /\ full = {}
  /\ expiring = {}
  /\ pc = [d \in Dispatchers |-> "idle"]
  /\ want = [d \in Dispatchers |-> None]
  /\ held = [d \in Dispatchers |-> None]

-----------------------------------------------------------------------------
(* Registration: the calls WorkerServiceImpl makes.                         *)

\* register(worker), for a new id or over an entity still registered.
Register(w, p) ==
  LET e == NewEntity(p) IN
  /\ expiring = {}
  /\ workers' = Put(workers, w, e)
  /\ deques' = RegisterDeques(deques, w, LanguagesOf(w), e.langs)
  /\ tombs' = ClearTombs(tombs, w, LanguagesOf(w) \cup e.langs)
  /\ full' = full \ {w}
  /\ pc' = CallersAfter(w, WakesFor(e))
  /\ UNCHANGED <<expiring, want, held>>

\* The refresh at the end of register_worker: unregister(w), then register.
Reregister(w, p) ==
  LET e == NewEntity(p)
      old == LanguagesOf(w) IN
  /\ expiring = {}
  /\ w \in Registered
  /\ workers' = Put(workers, w, e)
  /\ deques' = RegisterDeques(UnregisterDeques(deques, w, old), w, {}, e.langs)
  /\ tombs' = ClearTombs(UnregisterTombs(deques, tombs, w, old), w, e.langs)
  /\ full' = full \ {w}
  /\ pc' = CallersAfter(w, WakesFor(e))
  /\ UNCHANGED <<expiring, want, held>>

\* _unregister(w), the body shared by unregister() and the monitor.
Drop(w) ==
  /\ w \in Registered
  /\ workers' = Restrict(workers, Registered \ {w})
  /\ deques' = UnregisterDeques(deques, w, workers[w].langs)
  /\ tombs' = UnregisterTombs(deques, tombs, w, workers[w].langs)
  /\ full' = full \ {w}
  /\ pc' = CallersAfter(w, {})
  /\ UNCHANGED <<want, held>>

Unregister(w) == expiring = {} /\ Drop(w) /\ UNCHANGED expiring

-----------------------------------------------------------------------------
(* Heartbeats and the monitor.                                              *)

SetHeartbeat(w, age) ==
  /\ expiring = {}
  /\ w \in Registered
  /\ workers[w].heartbeat # age
  /\ workers' = [workers EXCEPT ![w].heartbeat = age]
  /\ UNCHANGED <<balancer, expiring, callers>>

Heartbeat(w) == SetHeartbeat(w, "fresh")       \* compute_heartbeat
ForgetHeartbeat(w) == SetHeartbeat(w, "none")  \* shutdown_worker, before it saves

\* heartbeat_timeout passes without a heartbeat.
Age(w) == w \in Registered /\ workers[w].heartbeat = "fresh" /\ SetHeartbeat(w, "stale")

\* MUTANT: the test for a missing heartbeat is the wrong way round.
Expired_NeverHeard == {w \in Registered : workers[w].heartbeat = "none"}
\* MUTANT: the sweep goes over the slots, where removed workers are still to be found.
Expired_Slots ==
  {w \in UNION {ToSet(deques[l]) : l \in Languages} :
     w \in Registered => workers[w].heartbeat = "stale"}
Expired == {w \in Registered : workers[w].heartbeat = "stale"}   \* _check_timeout

MonitorWake ==
  /\ expiring = {}
  /\ Expired # {}
  /\ expiring' = Expired
  /\ UNCHANGED <<workers, balancer, callers>>

MonitorDrop(w) == w \in expiring /\ Drop(w) /\ expiring' = expiring \ {w}

-----------------------------------------------------------------------------
(* get_worker and what its caller does with the worker.                     *)

\* MUTANTS: is_available one off, either way.
HasRoom_Early(w) == w \in Registered /\ workers[w].workload + 1 < workers[w].capacity
HasRoom_Late(w) == w \in Registered /\ workers[w].workload <= workers[w].capacity
HasRoom(w) == w \in Registered /\ IsAvailable(workers[w])
\* MUTANT: get_worker does not look at the tombstones.
Live_NoTombs(w, l) == HasRoom(w)
Live(w, l) == w \notin tombs[l] /\ HasRoom(w)

\* What the scan of get_worker does to the slots it pops, the first n of l:
\* a tombstoned slot takes its mark along, the id of a full worker is noted.
Popped(l, n) == {deques[l][i] : i \in 1..n}
PopTombs(l, n) == tombs' = [tombs EXCEPT ![l] = @ \ Popped(l, n)]
\* MUTANT: get_worker forgets to note the full workers it pops.
ParkFull_Forgets(l, n) == UNCHANGED full
ParkFull(l, n) == full' = full \cup {w \in Popped(l, n) : w \notin tombs[l] /\ w \in Registered}

\* The deque once the slots before i are popped and slot i is rotated to the end.
\* MUTANT: get_worker returns without rotating.
RotateTo_Stay(q, i) == SubSeq(q, i, Len(q))
RotateTo(q, i) == Append(SubSeq(q, i + 1, Len(q)), q[i])

Request(d, l) ==
  /\ expiring = {}
  /\ pc[d] = "idle"
  /\ pc' = [pc EXCEPT ![d] = "ready"]
  /\ want' = [want EXCEPT ![d] = l]
  /\ UNCHANGED <<workers, balancer, expiring, held>>

\* get_worker pops up to the first live slot, rotates it to the end, returns it.
Serve(d) ==
  /\ expiring = {}
  /\ pc[d] = "ready"
  /\ LET l == want[d]
         q == deques[l] IN
     \E i \in 1..Len(q) :
       /\ Live(q[i], l)
       /\ \A j \in 1..(i - 1) : ~Live(q[j], l)
       /\ deques' = [deques EXCEPT ![l] = RotateTo(q, i)]
       /\ PopTombs(l, i - 1)
       /\ ParkFull(l, i - 1)
       /\ held' = [held EXCEPT ![d] = q[i]]
       /\ IF ClaimAtOnce
          THEN /\ workers' = [workers EXCEPT ![q[i]].workload = @ + 1]
               /\ pc' = [pc EXCEPT ![d] = "running"]
          ELSE /\ UNCHANGED workers
               /\ pc' = [pc EXCEPT ![d] = "offered"]
  /\ want' = [want EXCEPT ![d] = None]
  /\ UNCHANGED expiring

\* get_worker finds no live slot: the deque is empty, the caller waits.
Block(d) ==
  /\ expiring = {}
  /\ pc[d] = "ready"
  /\ LET l == want[d]
         n == Len(deques[l]) IN
     /\ \A i \in 1..n : ~Live(deques[l][i], l)
     /\ deques' = [deques EXCEPT ![l] = <<>>]
     /\ PopTombs(l, n)
     /\ ParkFull(l, n)
  /\ pc' = [pc EXCEPT ![d] = "waiting"]
  /\ UNCHANGED <<workers, expiring, want, held>>

\* asyncio.wait_for gives up on get_worker, or its task is cancelled.
GiveUp(d) ==
  /\ expiring = {}
  /\ pc[d] \in {"ready", "waiting"}
  /\ pc' = [pc EXCEPT ![d] = "idle"]
  /\ want' = [want EXCEPT ![d] = None]
  /\ UNCHANGED <<workers, balancer, expiring, held>>

\* worker.current_workload += 1
Claim(d) ==
  /\ expiring = {}
  /\ pc[d] = "offered"
  /\ workers' = [workers EXCEPT ![held[d]].workload = @ + 1]
  /\ pc' = [pc EXCEPT ![d] = "running"]
  /\ UNCHANGED <<balancer, expiring, want, held>>

\* The caller has nothing to run on the worker it was given.
Decline(d) ==
  /\ expiring = {}
  /\ pc[d] = "offered"
  /\ pc' = [pc EXCEPT ![d] = "idle"]
  /\ held' = [held EXCEPT ![d] = None]
  /\ UNCHANGED <<workers, balancer, expiring, want>>

\* worker.current_workload -= 1, on the entity the caller holds.
Finish(d) ==
  /\ expiring = {}
  /\ pc[d] \in {"running", "detached"}
  /\ workers' = IF pc[d] = "running"
                THEN [workers EXCEPT ![held[d]].workload = @ - 1] ELSE workers
  /\ pc' = [pc EXCEPT ![d] = "released"]
  /\ UNCHANGED <<balancer, expiring, want, held>>

\* mark_worker_as_available(held[d]): raises or returns early when the worker
\* is gone or full again, else puts it back in its deques and sets their events.
MarkAvailable(d) ==
  LET w == held[d]
      callersWoken(ls) == [CallersAfter(None, ls) EXCEPT ![d] = "idle"] IN
  /\ expiring = {}
  /\ pc[d] = "released"
  /\ held' = [held EXCEPT ![d] = None]
  /\ UNCHANGED <<workers, expiring, want>>
  /\ \/ /\ ~HasRoom(w)
        /\ pc' = callersWoken({})
        /\ UNCHANGED balancer
     \/ /\ HasRoom(w)
        /\ deques' = RegisterDeques(deques, w, {}, workers[w].langs)
        /\ tombs' = ClearTombs(tombs, w, workers[w].langs)
        /\ full' = full \ {w}
        /\ pc' = callersWoken(workers[w].langs)

-----------------------------------------------------------------------------
Environment(w) ==
  \/ \E p \in Profiles : Register(w, p) \/ Reregister(w, p)
  \/ Unregister(w) \/ Heartbeat(w) \/ ForgetHeartbeat(w) \/ Age(w)

Monitor == MonitorWake \/ \E w \in Workers : MonitorDrop(w)

Caller(d) ==
  \/ \E l \in Languages : Request(d, l)
  \/ Serve(d) \/ Block(d) \/ GiveUp(d)
  \/ Claim(d) \/ Decline(d) \/ Finish(d) \/ MarkAvailable(d)

Next ==
  \/ \E w \in Workers : Environment(w)
  \/ Monitor
  \/ \E d \in Dispatchers : Caller(d)

\* The event loop runs what is runnable: a caller that is ready, the release of
\* a worker once begun, the monitor.  Nothing says that work finishes, that
\* workers register or that callers keep asking.  Strong fairness only because
\* the monitor's turn, split here, disables the callers' actions while it lasts.
Fairness ==
  /\ WF_vars(MonitorWake)
  /\ \A w \in Workers : WF_vars(MonitorDrop(w))
  /\ \A d \in Dispatchers : SF_vars(Serve(d) \/ Block(d)) /\ SF_vars(MarkAvailable(d))

Spec == Init /\ [][Next]_vars
FairSpec == Spec /\ Fairness

-----------------------------------------------------------------------------
(* What makes the balancer correct.                                         *)

\* Every variable has its type, and a caller that is somewhere in the middle of
\* a request has the language or the worker that place needs.
TypeOK ==
  /\ Registered \subseteq Workers
  /\ workers \in [Registered -> Entities]
  /\ deques \in [Languages -> Seq(Workers)]
  /\ tombs \in [Languages -> SUBSET Workers]
  /\ full \subseteq Workers
  /\ expiring \subseteq Registered
  /\ pc \in [Dispatchers -> Places]
  /\ want \in [Dispatchers -> Languages \cup {None}]
  /\ held \in [Dispatchers -> Workers \cup {None}]
  /\ \A d \in Dispatchers :
       /\ pc[d] \in {"ready", "waiting"} => want[d] \in Languages
       /\ pc[d] \in {"offered", "running", "detached", "released"} => held[d] \in Workers
       /\ pc[d] \in {"offered", "running"} => held[d] \in Registered

Slots(l) == ToSet(deques[l])
ReleasePending(w) == \E d \in Dispatchers : pc[d] = "released" /\ held[d] = w
Free(w, l) == Supports(w, l) /\ IsAvailable(workers[w])
Seeking(d, l) == pc[d] \in {"ready", "waiting"} /\ want[d] = l

\* A worker has at most one slot per language, whatever the order of
\* registrations, removals and releases: "Reuse that slot instead of appending a
\* duplicate".  A second slot would give it twice its share of the rotation.
SlotsAreUnique == \A l \in Languages : IsInjective(deques[l])

\* Lazy removal marks exactly the slots of workers that no longer serve the
\* language: no live slot is ever skipped as removed, no dead one is left for
\* get_worker to look up in the registry.
TombstonesAreTheDeadSlots ==
  \A l \in Languages : tombs[l] = {w \in Slots(l) : ~Supports(w, l)}

\* A worker whose slot was popped while full gets it back: out of the deque of
\* one of its languages it is at capacity, or mark_worker_as_available is due.
NoWorkerIsLost ==
  \A l \in Languages, w \in Registered :
    Supports(w, l) /\ w \notin Slots(l) => ~IsAvailable(workers[w]) \/ ReleasePending(w)

\* full_worker_id_set is the set of registered workers that miss a slot.
FullSetIsTheParkedWorkers ==
  full = {w \in Registered : \E l \in workers[w].langs : w \notin Slots(l)}

\* No wake-up is lost: nobody sleeps in event.wait() while a worker of the
\* language has room, unless the call that announces the room is still due.
NoLostWakeup ==
  \A d \in Dispatchers, w \in Registered :
    pc[d] = "waiting" /\ Free(w, want[d]) => ReleasePending(w)

\* current_workload of a registered entity counts the callers that run on it:
\* work begun before a re-registration never comes off the new entity.
WorkloadCountsCallers ==
  \A w \in Registered :
    workers[w].workload = Cardinality({d \in Holding(w) : pc[d] = "running"})

\* When the caller adds its workload in the turn get_worker returns, no
\* worker is given more work than it announced room for.
CapacityIsRespected ==
  ClaimAtOnce =>
    \A w \in Registered :
      workers[w].workload > 0 => workers[w].workload <= workers[w].capacity

\* get_worker returns a worker that is registered, supports the language asked
\* for under its latest registration, and has room ("available worker
\* supporting a language").
HandoutsAreSound ==
  [][\A d \in Dispatchers :
       pc[d] = "ready" /\ held'[d] # held[d] => Free(held'[d], want[d])]_vars

\* The slots, the lazy removal, the full workers noticed in passing and the
\* monitor together amount to WorkerPool: every worker handed out is free for the
\* language, nobody goes to sleep beside a free worker that is not about to be
\* announced, and what makes a worker free wakes everybody who waits for it.
PoolEntry(e) == [langs |-> e.langs, room |-> e.capacity - e.workload]
PoolView == [w \in Registered |-> PoolEntry(workers[w])]
Pool == INSTANCE WorkerPool WITH
  Offers <- {[langs |-> p.langs, room |-> p.capacity] : p \in Profiles},
  pool <- PoolView, phase <- pc, ask <- want, using <- held
ImplementsPool == Pool!Spec

\* A caller does not stay in get_worker for ever while a worker stays free.
WaitersAreServed ==
  \A d \in Dispatchers, w \in Workers, l \in Languages :
    (Seeking(d, l) /\ Free(w, l)) ~> ~(Seeking(d, l) /\ Free(w, l))

\* Round robin: a worker that stays free keeps its slot, and every worker handed
\* out in its place brings it one slot nearer; it loses its turn only by being
\* handed out or by registering again.  Nobody waits more than one round.
HandsOut(d, l) == pc[d] = "ready" /\ want[d] = l /\ held'[d] # held[d]
MovesUp(w, l, n) ==
  \E i \in DOMAIN deques[l], j \in DOMAIN deques'[l] :
    deques[l][i] = w /\ deques'[l][j] = w /\ j <= i - n
RotationIsFair ==
  [][\A l \in Languages : \A w \in Slots(l) :
       Free(w, l) /\ Free(w, l)' /\ ~(\E p \in Profiles : Reregister(w, p)) =>
         \/ \E d \in Dispatchers : HandsOut(d, l) /\ held'[d] = w
         \/ MovesUp(w, l, IF \E d \in Dispatchers : HandsOut(d, l) THEN 1 ELSE 0)]_vars
=============================================================================
