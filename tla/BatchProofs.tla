------------------------------ MODULE BatchProofs ------------------------------
(***************************************************************************)
(* What BatchCircularList guarantees for any number of batches, tasks,     *)
(* TaskQueues and dispatchers.                                             *)
(***************************************************************************)
EXTENDS BatchCircularList, RingTheorems, FiniteSetTheorems

\* The inductive invariant of the rotation: no TaskQueue is in it twice, the ones
\* of the registered batches are in it, and nobody sleeps while there is one.
InRotation == \A b \in Registered : items[b] \in ToSet(queue)
Rotates == TypeOK /\ IsInjective(queue) /\ InRotation /\ NoLostWakeup

-----------------------------------------------------------------------------
LEMMA SubmissionType ==
  ASSUME NEW s \in Submissions
  PROVE  /\ s.batch \in Batches
         /\ s.tasks \in Seq(Tasks)
         /\ ToSet(s.tasks) \subseteq Tasks
         /\ IsInjective(s.tasks)
<1>1. s \in [batch : Batches, tasks : Seq(Tasks)]
  BY SubmissionsAssumption
<1>2. s.tasks \in Seq(Tasks)
  BY <1>1
<1> QED BY <1>1, <1>2, ToSetType, TaskIdsAssumption

LEMMA WokenType ==
  ASSUME TypeOK
  PROVE  /\ Woken \in [Dispatchers -> Places]
         /\ \A d \in Dispatchers : /\ Woken[d] # "waiting"
                                   /\ Woken[d] \in {"given", "working"} => Woken[d] = pc[d]
BY DEF TypeOK, Woken, Places

\* A change of the deque of one TaskQueue.
LEMMA DequeUpdateType ==
  ASSUME TypeOK, NEW q \in Queues, NEW dq \in Seq(Tasks),
         tqs' = [tqs EXCEPT ![q].deque = dq]
  PROVE  /\ tqs' \in [Queues -> [batch : Batches \cup {None}, tasks : SUBSET Tasks,
                                 deque : Seq(Tasks)]]
         /\ tqs'[q].deque = dq /\ tqs'[q].tasks = tqs[q].tasks
         /\ \A x \in Queues : tqs'[x].batch = tqs[x].batch /\ (x # q => tqs'[x] = tqs[x])
<1>1. tqs \in [Queues -> [batch : Batches \cup {None}, tasks : SUBSET Tasks, deque : Seq(Tasks)]]
  BY DEF TypeOK
<1>2. [tqs[q] EXCEPT !.deque = dq] \in
        [batch : Batches \cup {None}, tasks : SUBSET Tasks, deque : Seq(Tasks)]
  BY <1>1
<1> QED BY <1>1, <1>2

LEMMA EnqueueRing ==
  ASSUME NEW dq \in Seq(Tasks), NEW t \in Tasks
  PROVE  /\ Enqueue(dq, t) \in Seq(Tasks)
         /\ IsInjective(dq) => IsInjective(Enqueue(dq, t))
         /\ ToSet(Enqueue(dq, t)) \subseteq ToSet(dq) \cup {t}
<1>1. CASE Contains(dq, t)
  BY <1>1 DEF Enqueue
<1>2. CASE ~Contains(dq, t)
  <2>1. Enqueue(dq, t) = Append(dq, t) /\ t \notin ToSet(dq)
    BY <1>2, ContainsIsMembership DEF Enqueue
  <2> QED BY <2>1, AppendRing
<1> QED BY <1>1, <1>2

\* getNext keeps the ring from the TaskQueue it gives on.
LEMMA RotateToRing ==
  ASSUME NEW q \in Seq(Queues), IsInjective(q), NEW i \in 1..Len(q)
  PROVE  /\ RotateTo(q, i) \in Seq(Queues) /\ IsInjective(RotateTo(q, i))
         /\ ToSet(RotateTo(q, i)) = ToSet(q) \ {q[j] : j \in 1..(i - 1)}
BY RotateRing DEF RotateTo

-----------------------------------------------------------------------------
LEMMA RotatesStep ==
  ASSUME Rotates, [Next]_vars
  PROVE  Rotates'
<1> USE DEF Rotates
<1>a. /\ queue \in Seq(Queues) /\ IsInjective(queue)
      /\ items \in [Registered -> Queues] /\ Registered \subseteq Batches
      /\ tqs \in [Queues -> [batch : Batches \cup {None}, tasks : SUBSET Tasks, deque : Seq(Tasks)]]
      /\ pc \in [Dispatchers -> Places]
  BY DEF TypeOK
<1>1. ASSUME NEW s \in Submissions, Submit(s) PROVE Rotates'
  <2>1. PICK q \in Spare :
          /\ tqs' = [tqs EXCEPT ![q] = [batch |-> s.batch, tasks |-> ToSet(s.tasks),
                                        deque |-> s.tasks]]
          /\ items' = [b \in Registered \cup {s.batch} |-> IF b = s.batch THEN q ELSE items[b]]
          /\ queue' = Append(queue, q)
    BY <1>1 DEF Submit
  <2>2. q \in Queues /\ q \notin ToSet(queue) /\ \A b \in Registered : items[b] # q
    BY <2>1 DEF Spare, Reachable
  <2>3. queue' \in Seq(Queues) /\ IsInjective(queue') /\ ToSet(queue') = ToSet(queue) \cup {q}
    BY <1>a, <2>1, <2>2, AppendRing
  <2>4. /\ Registered' = Registered \cup {s.batch} /\ s.batch \notin Registered
        /\ items' \in [Registered' -> Queues]
        /\ Registered' \subseteq Batches
    BY <1>1, <1>a, <2>1, <2>2, SubmissionType DEF Submit, Registered
  <2>5. tqs' \in [Queues -> [batch : Batches \cup {None}, tasks : SUBSET Tasks, deque : Seq(Tasks)]]
    BY <1>a, <2>1, <2>2, SubmissionType
  <2>6. \A b \in Registered' : tqs'[items'[b]].batch = b
    <3>1. tqs'[q].batch = s.batch /\ \A x \in Queues : x # q => tqs'[x] = tqs[x]
      BY <1>a, <2>1, <2>2
    <3> QED BY <1>a, <2>1, <2>2, <2>4, <3>1 DEF TypeOK, BatchOf
  <2>7. pc' = Woken /\ handle' = handle /\ task' = task
    BY <1>1 DEF Submit
  <2>8. TypeOK'
    BY <2>3, <2>4, <2>5, <2>6, <2>7, WokenType DEF TypeOK, BatchOf
  <2>9. InRotation' /\ NoLostWakeup'
    BY <2>1, <2>3, <2>4, <2>7, WokenType DEF InRotation, NoLostWakeup
  <2> QED BY <2>3, <2>8, <2>9
<1>2. ASSUME NEW b \in Batches, RemoveBatch(b) PROVE Rotates'
  <2>1. /\ Registered' = Registered \ {b}
        /\ \A x \in Registered' : items'[x] = items[x]
        /\ items' \in [Registered' -> Queues]
        /\ UNCHANGED <<queue, tqs, pc, handle, task>>
    BY <1>2, <1>a DEF RemoveBatch, Restrict, Registered
  <2> QED BY <1>a, <2>1 DEF TypeOK, BatchOf, InRotation, NoLostWakeup
<1>3. ASSUME NEW d \in Dispatchers, Give(d) PROVE Rotates'
  <2>1. PICK i \in DOMAIN queue :
          /\ IsLive(queue[i])
          /\ \A j \in 1..(i - 1) : ~IsLive(queue[j])
          /\ queue' = RotateTo(queue, i)
          /\ handle' = [handle EXCEPT ![d] = queue[i]]
    BY <1>3 DEF Give
  <2>2. i \in 1..Len(queue) /\ queue[i] \in Queues
    BY <1>a, <2>1
  <2>3. /\ queue' \in Seq(Queues) /\ IsInjective(queue')
        /\ ToSet(queue') = ToSet(queue) \ {queue[j] : j \in 1..(i - 1)}
    BY <1>a, <2>1, <2>2, RotateToRing
  <2>4. pc[d] = "ready" /\ pc' = [pc EXCEPT ![d] = "given"] /\ UNCHANGED <<items, tqs, task>>
    BY <1>3 DEF Give
  <2>5. \A b \in Registered : IsLive(items[b])
    BY DEF TypeOK, IsLive
  <2>6. InRotation'
    BY <2>1, <2>3, <2>4, <2>5 DEF InRotation, Registered
  <2>7. TypeOK'
    BY <2>1, <2>2, <2>3, <2>4 DEF TypeOK, Places, Registered, BatchOf
  <2>8. NoLostWakeup'
    BY <1>a, <2>4 DEF NoLostWakeup, Registered
  <2> QED BY <2>3, <2>6, <2>7, <2>8
<1>4. ASSUME NEW d \in Dispatchers, Block(d) PROVE Rotates'
  <2>1. /\ queue' = <<>> /\ pc' = [pc EXCEPT ![d] = "waiting"]
        /\ UNCHANGED <<items, tqs, handle, task>>
        /\ \A i \in DOMAIN queue : ~IsLive(queue[i])
    BY <1>4 DEF Block
  <2>2. Registered = {}
    <3>1. ASSUME NEW b \in Registered PROVE FALSE
      <4>1. PICK i \in DOMAIN queue : queue[i] = items[b]
        BY <1>a, <3>1 DEF InRotation, ToSet
      <4>2. IsLive(items[b])
        BY <3>1 DEF TypeOK, IsLive
      <4> QED BY <2>1, <4>1, <4>2
    <3> QED BY <3>1
  <2>3. IsInjective(queue') /\ queue' \in Seq(Queues)
    BY <2>1 DEF IsInjective
  <2> QED BY <1>a, <2>1, <2>2, <2>3 DEF TypeOK, Places, Registered, BatchOf, InRotation, NoLostWakeup
<1>5. ASSUME NEW d \in Dispatchers, Ask(d) \/ GiveUp(d) \/ Complete(d) PROVE Rotates'
  BY <1>5 DEF Ask, GiveUp, Complete, Release, TypeOK, Places, Registered, BatchOf, InRotation, NoLostWakeup
<1>6. ASSUME NEW d \in Dispatchers, Dequeue(d) PROVE Rotates'
  <2> DEFINE q == handle[d]
             dq == tqs[q].deque
  <2>1. q \in Queues /\ dq \in Seq(Tasks) /\ UNCHANGED <<queue, items>>
    BY <1>6, <1>a DEF Dequeue, TypeOK
  <2>2. CASE /\ dq # <<>>
             /\ task' = [task EXCEPT ![d] = Head(dq)]
             /\ tqs' = [tqs EXCEPT ![q].deque = Tail(@)]
             /\ pc' = [pc EXCEPT ![d] = "working"]
             /\ UNCHANGED handle
    <3>1. tqs' = [tqs EXCEPT ![q].deque = Tail(dq)]
      BY <1>a, <2>1, <2>2
    <3> HIDE DEF dq, q
    <3>2. Tail(dq) \in Seq(Tasks) /\ Head(dq) \in Tasks
      BY <2>1, <2>2
    <3>3. /\ tqs' \in [Queues -> [batch : Batches \cup {None}, tasks : SUBSET Tasks,
                                  deque : Seq(Tasks)]]
          /\ \A x \in Queues : tqs'[x].batch = tqs[x].batch
      BY <2>1, <3>1, <3>2, DequeUpdateType
    <3>4. handle[d] \in Queues
      BY <2>1 DEF q
    <3>5. \A b \in Registered : items[b] \in Queues
      BY <1>a
    <3> QED BY ZenonT(30), <2>1, <2>2, <3>2, <3>3, <3>4, <3>5
            DEF TypeOK, Places, Registered, BatchOf, InRotation, NoLostWakeup
  <2>3. CASE /\ pc' = [pc EXCEPT ![d] = "idle"]
             /\ handle' = [handle EXCEPT ![d] = None]
             /\ UNCHANGED <<tqs, task>>
    BY <2>1, <2>3 DEF TypeOK, Places, Registered, BatchOf, InRotation, NoLostWakeup
  <2> QED BY <1>6, <2>2, <2>3 DEF Dequeue
<1>7. ASSUME NEW d \in Dispatchers, Requeue(d) PROVE Rotates'
  <2>1. /\ handle' = [handle EXCEPT ![d] = None] /\ task' = [task EXCEPT ![d] = None]
        /\ task[d] \in Tasks /\ UNCHANGED <<queue, items>>
    BY <1>7 DEF Requeue, Release, TypeOK
  <2>2. CASE pc' = [pc EXCEPT ![d] = "idle"] /\ UNCHANGED tqs
    BY <2>1, <2>2 DEF TypeOK, Places, Registered, BatchOf, InRotation, NoLostWakeup
  <2>3. ASSUME NEW q \in Queues, tqs' = [tqs EXCEPT ![q].deque = Enqueue(@, task[d])],
               pc' = [Woken EXCEPT ![d] = "idle"]
        PROVE  Rotates'
    <3>1. tqs' = [tqs EXCEPT ![q].deque = Enqueue(tqs[q].deque, task[d])]
      BY <1>a, <2>3
    <3>2. Enqueue(tqs[q].deque, task[d]) \in Seq(Tasks)
      BY <1>a, <2>1, EnqueueRing
    <3>3. /\ tqs' \in [Queues -> [batch : Batches \cup {None}, tasks : SUBSET Tasks,
                                  deque : Seq(Tasks)]]
          /\ \A x \in Queues : tqs'[x].batch = tqs[x].batch
      BY <3>1, <3>2, DequeUpdateType
    <3>4. \A b \in Registered : items[b] \in Queues
      BY <1>a
    <3>5. /\ pc' \in [Dispatchers -> Places]
          /\ \A c \in Dispatchers : /\ pc'[c] # "waiting"
                                    /\ pc'[c] \in {"given", "working"} => c # d /\ pc'[c] = pc[c]
      BY <2>3, WokenType DEF Places
    <3> QED BY <2>1, <3>3, <3>4, <3>5
            DEF TypeOK, Registered, BatchOf, InRotation, NoLostWakeup
  <2>4. CASE BatchOf(handle[d]) \in Registered
    <3> DEFINE q == items[BatchOf(handle[d])]
    <3>1. q \in Queues
      BY <1>a, <2>4
    <3> QED BY <1>7, <2>2, <2>3, <2>4, <3>1 DEF Requeue
  <2> QED BY <1>7, <2>2, <2>4 DEF Requeue
<1>8. CASE UNCHANGED vars
  BY <1>8 DEF vars, TypeOK, Registered, BatchOf, InRotation, NoLostWakeup
<1> QED BY <1>1, <1>2, <1>3, <1>4, <1>5, <1>6, <1>7, <1>8 DEF Next, Service, Dispatcher

LEMMA RotatesMeaning ==
  ASSUME Rotates
  PROVE  RegisteredBatchesRotate
<1>1. SUFFICES ASSUME NEW b \in Registered
               PROVE  Cardinality({i \in DOMAIN queue : queue[i] = items[b]}) = 1
  BY DEF RegisteredBatchesRotate
<1>2. PICK k \in DOMAIN queue : queue[k] = items[b]
  BY DEF Rotates, TypeOK, InRotation, ToSet
<1>3. {i \in DOMAIN queue : queue[i] = items[b]} = {k}
  BY <1>2 DEF Rotates, IsInjective
<1> QED BY <1>3, FS_Singleton

LEMMA AlwaysRotates == Spec => []Rotates
<1>1. Init => Rotates
  BY DEF Init, Rotates, TypeOK, Places, Registered, IsInjective, InRotation, NoLostWakeup
<1>2. Rotates /\ [Next]_vars => Rotates'
  BY RotatesStep
<1> QED BY <1>1, <1>2, PTL DEF Spec

\* Every variable keeps its type; a registered batch has its TaskQueue in the
\* rotation, once; and nobody sleeps in getNext while a batch is registered.
THEOREM NoBatchIsForgotten == Spec => [](TypeOK /\ RegisteredBatchesRotate /\ NoLostWakeup)
<1>1. Rotates => TypeOK /\ RegisteredBatchesRotate /\ NoLostWakeup
  BY RotatesMeaning DEF Rotates
<1> QED BY <1>1, AlwaysRotates, PTL

-----------------------------------------------------------------------------
(* No task is queued twice.                                                 *)

LEMMA TasksQueuedOnceStep ==
  ASSUME TypeOK, TasksQueuedOnce, [Next]_vars
  PROVE  TasksQueuedOnce'
<1>a. tqs \in [Queues -> [batch : Batches \cup {None}, tasks : SUBSET Tasks, deque : Seq(Tasks)]]
  BY DEF TypeOK
<1>1. ASSUME NEW s \in Submissions, Submit(s) PROVE TasksQueuedOnce'
  <2>1. PICK q \in Queues :
          tqs' = [tqs EXCEPT ![q] = [batch |-> s.batch, tasks |-> ToSet(s.tasks),
                                     deque |-> s.tasks]]
    BY <1>1 DEF Submit, Spare
  <2>2. /\ tqs'[q].deque = s.tasks /\ tqs'[q].tasks = ToSet(s.tasks)
        /\ \A x \in Queues : x # q => tqs'[x] = tqs[x]
    BY <1>a, <2>1
  <2> QED BY <2>2, SubmissionType DEF TasksQueuedOnce
<1>2. ASSUME NEW q \in Queues, NEW dq \in Seq(Tasks), tqs' = [tqs EXCEPT ![q].deque = dq],
             IsInjective(dq), ToSet(dq) \subseteq tqs[q].tasks
      PROVE  TasksQueuedOnce'
  BY <1>2, DequeUpdateType DEF TasksQueuedOnce
<1>3. ASSUME UNCHANGED tqs PROVE TasksQueuedOnce'
  BY <1>3 DEF TasksQueuedOnce
<1>4. ASSUME NEW d \in Dispatchers, Dequeue(d) PROVE TasksQueuedOnce'
  <2> DEFINE q == handle[d]
             dq == tqs[q].deque
  <2>1. CASE dq # <<>> /\ tqs' = [tqs EXCEPT ![q].deque = Tail(@)]
    <3>1. q \in Queues /\ dq \in Seq(Tasks) /\ IsInjective(dq) /\ ToSet(dq) \subseteq tqs[q].tasks
      BY <1>4, <1>a DEF Dequeue, TypeOK, TasksQueuedOnce
    <3>2. tqs' = [tqs EXCEPT ![q].deque = Tail(dq)]
      BY <1>a, <2>1, <3>1
    <3> HIDE DEF dq, q
    <3>3. Tail(dq) \in Seq(Tasks) /\ IsInjective(Tail(dq)) /\ ToSet(Tail(dq)) \subseteq tqs[q].tasks
      BY <2>1, <3>1, TailRing
    <3> QED BY <1>2, <3>1, <3>2, <3>3
  <2>2. CASE UNCHANGED tqs
    BY <1>3, <2>2
  <2> QED BY <1>4, <2>1, <2>2 DEF Dequeue
<1>5. ASSUME NEW d \in Dispatchers, Requeue(d) PROVE TasksQueuedOnce'
  <2>1. task[d] \in Tasks
    BY <1>5 DEF Requeue, TypeOK
  <2>2. ASSUME NEW q \in Queues, task[d] \in tqs[q].tasks,
               tqs' = [tqs EXCEPT ![q].deque = Enqueue(@, task[d])]
        PROVE  TasksQueuedOnce'
    <3> DEFINE dq == tqs[q].deque
    <3>1. dq \in Seq(Tasks) /\ IsInjective(dq) /\ ToSet(dq) \subseteq tqs[q].tasks
      BY <1>a DEF TasksQueuedOnce
    <3>2. tqs' = [tqs EXCEPT ![q].deque = Enqueue(dq, task[d])]
      BY <1>a, <2>2
    <3> HIDE DEF dq
    <3>3. /\ Enqueue(dq, task[d]) \in Seq(Tasks) /\ IsInjective(Enqueue(dq, task[d]))
          /\ ToSet(Enqueue(dq, task[d])) \subseteq tqs[q].tasks
      BY <2>1, <2>2, <3>1, EnqueueRing
    <3> QED BY <1>2, <3>2, <3>3
  <2>3. CASE BatchOf(handle[d]) \in Registered
    <3> DEFINE q == items[BatchOf(handle[d])]
    <3>1. q \in Queues
      BY <2>3 DEF TypeOK
    <3> QED BY <1>3, <1>5, <2>2, <2>3, <3>1 DEF Requeue
  <2> QED BY <1>3, <1>5, <2>3 DEF Requeue
<1>6. ASSUME NEW d \in Dispatchers,
             Ask(d) \/ Give(d) \/ Block(d) \/ GiveUp(d) \/ Complete(d)
      PROVE  TasksQueuedOnce'
  BY <1>3, <1>6 DEF Ask, Give, Block, GiveUp, Complete
<1> QED BY <1>1, <1>3, <1>4, <1>5, <1>6 DEF Next, Service, Dispatcher, RemoveBatch, vars

\* However often batches are replaced while dispatchers hold their tasks, a TaskQueue
\* has each task once at most and only tasks of its own.
THEOREM NoTaskTwice == Spec => []TasksQueuedOnce
<1>1. Init => TasksQueuedOnce
  BY DEF Init, TasksQueuedOnce, IsInjective, ToSet
<1>2. TypeOK /\ TasksQueuedOnce /\ [Next]_vars => TasksQueuedOnce'
  BY TasksQueuedOnceStep
<1> QED BY <1>1, <1>2, NoBatchIsForgotten, PTL DEF Spec

-----------------------------------------------------------------------------
(* The rotation.                                                            *)

\* One TaskQueue, one step.
LEMMA PlaceStep ==
  ASSUME Rotates, [Next]_vars, NEW x \in Queues, NEW k \in 1..Len(queue), queue[k] = x,
         IsLive(x)
  PROVE  \/ \E d \in Dispatchers : pc[d] = "ready" /\ handle'[d] = x
         \/ \E j \in 1..Len(queue') : queue'[j] = x /\ j <= k - (IF HandsOut THEN 1 ELSE 0)
<1> DEFINE Goal == \/ \E d \in Dispatchers : pc[d] = "ready" /\ handle'[d] = x
                   \/ \E j \in 1..Len(queue') :
                        queue'[j] = x /\ j <= k - (IF HandsOut THEN 1 ELSE 0)
<1>a. queue \in Seq(Queues) /\ IsInjective(queue) /\ pc \in [Dispatchers -> Places]
      /\ handle \in [Dispatchers -> Queues \cup {None}] /\ Len(queue) \in Nat
  BY DEF Rotates, TypeOK
<1>b. ASSUME ~HandsOut, queue' = queue PROVE Goal
  BY <1>b
<1>c. ASSUME NEW n \in {0, 1}, ~HandsOut \/ n = 1,
             NEW j \in 1..Len(queue'), queue'[j] = x, j <= k - n
      PROVE  Goal
  BY <1>c
<1> HIDE DEF Goal
<1>1. ASSUME NEW s \in Submissions, Submit(s) PROVE Goal
  <2>1. PICK q \in Queues : queue' = Append(queue, q)
    BY <1>1 DEF Submit, Spare
  <2>2. k \in 1..Len(queue') /\ queue'[k] = x
    BY <1>a, <2>1, AppendPlace
  <2>3. ~HandsOut
    BY <1>1 DEF Submit, Woken, HandsOut
  <2> QED BY <1>c, <2>2, <2>3
<1>2. ASSUME NEW d \in Dispatchers, Give(d) PROVE Goal
  <2>1. PICK i \in 1..Len(queue) :
          /\ \A j \in 1..(i - 1) : ~IsLive(queue[j])
          /\ queue' = RotateTo(queue, i)
          /\ handle' = [handle EXCEPT ![d] = queue[i]]
          /\ pc[d] = "ready"
    <3>1. DOMAIN queue = 1..Len(queue)
      BY <1>a
    <3> QED BY <1>2, <3>1 DEF Give
  <2>2. ~(k < i)
    BY <2>1
  <2>3. CASE k = i
    BY <1>a, <2>1, <2>3 DEF Goal
  <2>4. CASE i < k
    <3> DEFINE j == k - i
    <3>1. j \in 1..Len(RotateTo(queue, i)) /\ RotateTo(queue, i)[j] = x /\ j <= k - 1
      BY <1>a, <2>4, RotatePlace DEF RotateTo
    <3> HIDE DEF j
    <3> QED BY <1>c, <2>1, <3>1
  <2> QED BY <2>2, <2>3, <2>4
<1>3. ASSUME NEW d \in Dispatchers, Block(d) PROVE Goal
  BY <1>3, <1>a DEF Block
<1>4. ASSUME NEW d \in Dispatchers,
             Ask(d) \/ GiveUp(d) \/ Dequeue(d) \/ Complete(d) \/ Requeue(d)
      PROVE  Goal
  <2>1. queue' = queue
    BY <1>4 DEF Ask, GiveUp, Dequeue, Complete, Requeue
  <2>2. ASSUME NEW c \in Dispatchers, pc[c] = "ready" PROVE pc'[c] # "given"
    BY <1>a, <1>4, <2>2 DEF Ask, GiveUp, Dequeue, Complete, Requeue, Woken
  <2>3. ~HandsOut
    BY <2>2 DEF HandsOut
  <2> QED BY <1>b, <2>1, <2>3
<1>5. ASSUME (\E b \in Batches : RemoveBatch(b)) \/ UNCHANGED vars PROVE Goal
  BY <1>b, <1>5 DEF RemoveBatch, vars, HandsOut
<1>6. Goal
  BY <1>1, <1>2, <1>3, <1>4, <1>5 DEF Next, Service, Dispatcher
<1> QED BY <1>6 DEF Goal

\* A batch that stays registered waits one round at most: every TaskQueue handed out
\* instead of its own brings its own nearer to the head.
THEOREM BatchesTakeTurns == Spec => RotationIsFair
<1>1. ASSUME Rotates, [Next]_vars, NEW b \in Registered, b \in Registered', items'[b] = items[b]
      PROVE  \/ \E d \in Dispatchers : pc[d] = "ready" /\ handle'[d] = items[b]
             \/ NearerBy(b, IF HandsOut THEN 1 ELSE 0)
  <2>1. /\ queue \in Seq(Queues) /\ queue' \in Seq(Queues)
        /\ items[b] \in Queues /\ IsLive(items[b])
    BY <1>1, RotatesStep DEF Rotates, TypeOK, IsLive
  <2>2. PICK k \in 1..Len(queue) : queue[k] = items[b]
    BY <1>1, <2>1 DEF Rotates, InRotation, ToSet
  <2>3. \/ \E d \in Dispatchers : pc[d] = "ready" /\ handle'[d] = items[b]
        \/ \E j \in 1..Len(queue') :
             queue'[j] = items[b] /\ j <= k - (IF HandsOut THEN 1 ELSE 0)
    BY <1>1, <2>1, <2>2, PlaceStep
  <2> QED BY <2>1, <2>2, <2>3 DEF NearerBy
<1>2. Rotates /\ [Next]_vars =>
        [\A b \in Registered :
           b \in Registered' /\ items'[b] = items[b] =>
             \/ \E d \in Dispatchers : pc[d] = "ready" /\ handle'[d] = items[b]
             \/ NearerBy(b, IF HandsOut THEN 1 ELSE 0)]_vars
  BY <1>1
<1> QED BY <1>2, AlwaysRotates, PTL DEF Spec, RotationIsFair
=============================================================================
