----------------------------- MODULE PoolProofs -----------------------------
(***************************************************************************)
(* LoadBalancer implements WorkerPool: every step of the balancer is a     *)
(* step of the pool under PoolView, or leaves the pool unchanged.          *)
(***************************************************************************)
EXTENDS LoadBalancerProofs

LEMMA OffersType ==
  ASSUME NEW p \in Profiles
  PROVE  /\ NewEntity(p) \in Entities
         /\ PoolEntry(NewEntity(p)) \in {[langs |-> r.langs, room |-> r.capacity] : r \in Profiles}
         /\ WakesFor(NewEntity(p)) = IF PoolEntry(NewEntity(p)).room > 0
                                     THEN PoolEntry(NewEntity(p)).langs ELSE {}
<1>1. p \in [langs : SUBSET Languages, capacity : Int]
  BY ProfilesAssumption
<1>2. PoolEntry(NewEntity(p)) = [langs |-> p.langs, room |-> p.capacity]
  BY <1>1 DEF PoolEntry, NewEntity
<1> QED BY <1>1, <1>2, NewEntityType DEF WakesFor, IsAvailable, NewEntity

\* The pool's words and the balancer's mean the same.
LEMMA SameFree ==
  ASSUME Typed, NEW x, NEW l
  PROVE  Pool!Free(x, l) <=> Free(x, l)
<1>1. \A w \in Registered : workers[w].workload \in Int /\ workers[w].capacity \in Int
  BY DEF Typed, TypeOK, Entities
<1>2. ASSUME x \in Registered PROVE Pool!Free(x, l) <=> Free(x, l)
  <2>1. PoolView[x].langs = workers[x].langs
    BY <1>2 DEF PoolView, PoolEntry
  <2>2. PoolView[x].room = workers[x].capacity - workers[x].workload
    BY <1>2 DEF PoolView, PoolEntry
  <2> QED BY <1>1, <1>2, <2>1, <2>2
          DEF Pool!Free, Pool!Pooled, PoolView, Free, Supports, IsAvailable
<1> QED BY <1>2 DEF Pool!Free, Pool!Pooled, PoolView, Free, Supports

LEMMA SamePhases ==
  ASSUME NEW w, NEW ls
  PROVE  Pool!PhaseAfter(w, ls) = CallersAfter(w, ls)
BY DEF Pool!PhaseAfter, CallersAfter

LEMMA SameReleases ==
  ASSUME NEW w
  PROVE  Pool!ReleaseDue(w) <=> ReleasePending(w)
BY DEF Pool!ReleaseDue, ReleasePending

\* A change of one workload is a change of one worker's room, the other way.
LEMMA RoomOfWorkload ==
  ASSUME Typed, NEW w \in Registered, NEW v,
         workers' = [workers EXCEPT ![w].workload = v]
  PROVE  /\ Registered' = Registered
         /\ \A x \in Registered : x # w => PoolView'[x] = PoolView[x]
         /\ PoolView'[w] = [langs |-> workers[w].langs, room |-> workers[w].capacity - v]
<1>1. workers \in [Registered -> Entities] /\ workers[w] \in Entities
  BY DEF Typed, TypeOK
<1>2. Registered' = Registered
  BY <1>1 DEF Registered
<1>3. \A x \in Registered : x # w => workers'[x] = workers[x]
  BY <1>1
<1>4. /\ workers'[w].langs = workers[w].langs
      /\ workers'[w].capacity = workers[w].capacity
      /\ workers'[w].workload = v
  BY <1>1 DEF Entities, Registered
<1> QED BY <1>2, <1>3, <1>4 DEF PoolView, PoolEntry

LEMMA RoomFallsAndRises ==
  ASSUME Typed, NEW w \in Registered
  PROVE  /\ workers' = [workers EXCEPT ![w].workload = @ + 1]
              => PoolView' = [PoolView EXCEPT ![w].room = @ - 1]
         /\ workers' = [workers EXCEPT ![w].workload = @ - 1]
              => PoolView' = [PoolView EXCEPT ![w].room = @ + 1]
<1>1. workers[w].workload \in Int /\ workers[w].capacity \in Int
  BY DEF Typed, TypeOK, Entities
<1>2. PoolView[w] = [langs |-> workers[w].langs,
                     room |-> workers[w].capacity - workers[w].workload]
  BY DEF PoolView, PoolEntry
<1>3. ASSUME workers' = [workers EXCEPT ![w].workload = @ + 1]
      PROVE  PoolView' = [PoolView EXCEPT ![w].room = @ - 1]
  <2> DEFINE new == [langs |-> workers[w].langs,
                     room |-> workers[w].capacity - (workers[w].workload + 1)]
  <2>1. /\ Registered' = Registered
        /\ \A x \in Registered : x # w => PoolView'[x] = PoolView[x]
        /\ PoolView'[w] = new
    BY <1>1, <1>3, RoomOfWorkload
  <2>2. [PoolView EXCEPT ![w].room = @ - 1][w] = new
    BY <1>1, <1>2 DEF PoolView
  <2>3. \A x \in Registered : PoolView'[x] = [PoolView EXCEPT ![w].room = @ - 1][x]
    BY <2>1, <2>2 DEF PoolView
  <2> QED BY <2>1, <2>3 DEF PoolView
<1>4. ASSUME workers' = [workers EXCEPT ![w].workload = @ - 1]
      PROVE  PoolView' = [PoolView EXCEPT ![w].room = @ + 1]
  <2> DEFINE new == [langs |-> workers[w].langs,
                     room |-> workers[w].capacity - (workers[w].workload - 1)]
  <2>1. /\ Registered' = Registered
        /\ \A x \in Registered : x # w => PoolView'[x] = PoolView[x]
        /\ PoolView'[w] = new
    BY <1>1, <1>4, RoomOfWorkload
  <2>2. [PoolView EXCEPT ![w].room = @ + 1][w] = new
    BY <1>1, <1>2 DEF PoolView
  <2>3. \A x \in Registered : PoolView'[x] = [PoolView EXCEPT ![w].room = @ + 1][x]
    BY <2>1, <2>2 DEF PoolView
  <2> QED BY <2>1, <2>3 DEF PoolView
<1> QED BY <1>3, <1>4

LEMMA PoolFrame ==
  ASSUME Registered' = Registered,
         \A x \in Registered : /\ workers'[x].langs = workers[x].langs
                               /\ workers'[x].capacity = workers[x].capacity
                               /\ workers'[x].workload = workers[x].workload
  PROVE  PoolView' = PoolView
BY DEF PoolView, PoolEntry

-----------------------------------------------------------------------------
(* The simulation, one lemma for the registry and one for the callers.      *)

LEMMA RegistrySimulates ==
  ASSUME Typed, NEW w \in Workers
  PROVE  /\ Environment(w) => Pool!Next \/ UNCHANGED Pool!vars
         /\ MonitorDrop(w) => Pool!Next
<1>1. ASSUME NEW p \in Profiles, Register(w, p) \/ Reregister(w, p) PROVE Pool!Next
  <2> DEFINE e == NewEntity(p)
  <2>1. /\ workers' = Put(workers, w, e) /\ want' = want /\ held' = held
        /\ pc' = CallersAfter(w, WakesFor(e))
    BY <1>1 DEF Register, Reregister
  <2>2. PoolView' = [x \in Registered \cup {w} |-> IF x = w THEN PoolEntry(e) ELSE PoolView[x]]
    BY <2>1 DEF PoolView, Put, Registered
  <2>3. Pool!Join(w, PoolEntry(e))
    BY <2>1, <2>2, OffersType, SamePhases DEF Pool!Join, Pool!Pooled, PoolView
  <2> QED BY <2>3, OffersType DEF Pool!Next
<1>2. ASSUME Drop(w) PROVE Pool!Next
  <2>1. /\ w \in Registered /\ workers' = Restrict(workers, Registered \ {w})
        /\ want' = want /\ held' = held /\ pc' = CallersAfter(w, {})
    BY <1>2 DEF Drop
  <2>2. PoolView' = [x \in Registered \ {w} |-> PoolView[x]]
    BY <2>1 DEF PoolView, Restrict, Registered
  <2>3. Pool!Leave(w)
    BY <2>1, <2>2, SamePhases DEF Pool!Leave, Pool!Pooled, PoolView
  <2> QED BY <2>3 DEF Pool!Next
<1>3. ASSUME NEW age, SetHeartbeat(w, age) PROVE UNCHANGED Pool!vars
  <2>1. w \in Registered /\ workers' = [workers EXCEPT ![w].heartbeat = age] /\ UNCHANGED callers
    BY <1>3 DEF SetHeartbeat
  <2>2. workers \in [Registered -> Entities] /\ \A x \in Registered : workers[x] \in Entities
    BY DEF Typed, TypeOK
  <2>3. /\ Registered' = Registered
        /\ \A x \in Registered : /\ workers'[x].langs = workers[x].langs
                                  /\ workers'[x].capacity = workers[x].capacity
                                  /\ workers'[x].workload = workers[x].workload
    BY <2>1, <2>2 DEF Registered, Entities
  <2> QED BY <2>1, <2>3, PoolFrame DEF Pool!vars, callers
<1> QED BY <1>1, <1>2, <1>3 DEF Environment, Unregister, Heartbeat, ForgetHeartbeat, Age, MonitorDrop

\* Serve hands out a worker that is free; Block sleeps only when each free worker
\* is missing a slot, which is when its release is due.
LEMMA CallersSimulate ==
  ASSUME Typed, TombstonesAreTheDeadSlots, Reachable, NEW d \in Dispatchers, Caller(d)
  PROVE  Pool!Next
<1>a. /\ workers \in [Registered -> Entities] /\ Registered \subseteq Workers
      /\ \A x \in Registered : workers[x] \in Entities
      /\ deques \in [Languages -> Seq(Workers)]
      /\ pc \in [Dispatchers -> Places] /\ held \in [Dispatchers -> Workers \cup {None}]
      /\ pc[d] \in {"ready", "waiting"} => want[d] \in Languages
      /\ pc[d] \in {"offered", "running"} => held[d] \in Registered
  BY DEF Typed, TypeOK
<1>1. ASSUME NEW l \in Languages, Request(d, l) PROVE Pool!Request(d, l)
  BY <1>1, PoolFrame DEF Request, Pool!Request, Registered
<1>2. ASSUME Serve(d) PROVE \E w \in Workers : Pool!HandOut(d, w)
  <2> DEFINE l == want[d]
             q == deques[l]
  <2>1. pc[d] = "ready" /\ l \in Languages /\ q \in Seq(Workers)
    BY <1>2, <1>a DEF Serve
  <2>2. PICK i \in 1..Len(q) :
          /\ Live(q[i], l)
          /\ held' = [held EXCEPT ![d] = q[i]]
          /\ IF ClaimAtOnce
             THEN /\ workers' = [workers EXCEPT ![q[i]].workload = @ + 1]
                  /\ pc' = [pc EXCEPT ![d] = "running"]
             ELSE /\ UNCHANGED workers
                  /\ pc' = [pc EXCEPT ![d] = "offered"]
    BY <1>2 DEF Serve
  <2>3. q[i] \in Slots(l) /\ q[i] \in Workers
    BY <2>1, <2>2 DEF Slots, ToSet
  <2>4. tombs[l] = {w \in Slots(l) : ~Supports(w, l)}
    BY <2>1 DEF TombstonesAreTheDeadSlots
  <2>5. Free(q[i], l) /\ q[i] \in Registered
    BY <2>2, <2>3, <2>4 DEF Live, HasRoom, Free
  <2>6. \/ /\ PoolView' = [PoolView EXCEPT ![q[i]].room = @ - 1]
           /\ pc' = [pc EXCEPT ![d] = "running"]
        \/ /\ pc' = [pc EXCEPT ![d] = "offered"]
           /\ PoolView' = PoolView
    <3>1. CASE ClaimAtOnce
      BY <2>2, <2>5, <3>1, RoomFallsAndRises
    <3>2. CASE ~ClaimAtOnce
      BY <2>2, <3>2 DEF PoolView, Registered
    <3> QED BY <3>1, <3>2
  <2>7. want' = [want EXCEPT ![d] = None]
    BY <1>2 DEF Serve
  <2>8. Pool!HandOut(d, q[i])
    BY <2>1, <2>2, <2>5, <2>6, <2>7, SameFree DEF Pool!HandOut, Pool!None, None
  <2> QED BY <2>3, <2>8
<1>3. ASSUME Block(d) PROVE Pool!Sleep(d)
  <2> DEFINE l == want[d]
             q == deques[l]
  <2>1. pc[d] = "ready" /\ l \in Languages /\ q \in Seq(Workers)
    BY <1>3, <1>a DEF Block
  <2>2. /\ \A i \in 1..Len(q) : ~Live(q[i], l)
        /\ pc' = [pc EXCEPT ![d] = "waiting"]
        /\ UNCHANGED <<workers, want, held>>
    BY <1>3 DEF Block
  <2>3. ASSUME NEW w, Free(w, l) PROVE ReleasePending(w)
    <3>1. Live(w, l)
      BY <2>1, <2>3, FreeIsLive
    <3>2. w \notin SlotsIn(deques, l)
      BY <2>1, <2>2, <3>1 DEF SlotsIn, ToSet
    <3> QED BY <2>1, <2>3, <3>2 DEF Reachable
  <2>4. PoolView' = PoolView
    BY <2>2 DEF PoolView, Registered
  <2> QED BY <2>1, <2>2, <2>3, <2>4, SameFree, SameReleases DEF Pool!Sleep
<1>4. ASSUME GiveUp(d) PROVE Pool!GiveUp(d)
  BY <1>4 DEF GiveUp, Pool!GiveUp, PoolView, Registered, None, Pool!None
<1>5. ASSUME Claim(d) PROVE Pool!Claim(d)
  <2>1. held[d] \in Registered /\ workers' = [workers EXCEPT ![held[d]].workload = @ + 1]
    BY <1>5, <1>a DEF Claim
  <2>2. PoolView' = [PoolView EXCEPT ![held[d]].room = @ - 1]
    BY <2>1, RoomFallsAndRises
  <2> QED BY <1>5, <2>2 DEF Claim, Pool!Claim
<1>6. ASSUME Decline(d) PROVE Pool!Decline(d)
  BY <1>6 DEF Decline, Pool!Decline, PoolView, Registered, None, Pool!None
<1>7. ASSUME Finish(d) PROVE Pool!Finish(d)
  <2>1. CASE pc[d] = "running"
    <3>1. held[d] \in Registered /\ workers' = [workers EXCEPT ![held[d]].workload = @ - 1]
      BY <1>7, <1>a, <2>1 DEF Finish
    <3>2. PoolView' = [PoolView EXCEPT ![held[d]].room = @ + 1]
      BY <3>1, RoomFallsAndRises
    <3> QED BY <1>7, <2>1, <3>2 DEF Finish, Pool!Finish
  <2>2. CASE pc[d] # "running"
    BY <1>7, <2>2 DEF Finish, Pool!Finish, PoolView, Registered
  <2> QED BY <2>1, <2>2
<1>8. ASSUME MarkAvailable(d) PROVE Pool!Announce(d)
  <2> DEFINE w == held[d]
             woken == IF HasRoom(w) THEN workers[w].langs ELSE {}
  <2>1. /\ pc[d] = "released"
        /\ held' = [held EXCEPT ![d] = None]
        /\ UNCHANGED <<workers, want>>
        /\ pc' = [CallersAfter(None, woken) EXCEPT ![d] = "idle"]
    BY <1>8 DEF MarkAvailable
  <2>2. /\ w \in Pool!Pooled <=> w \in Registered
        /\ w \in Registered => /\ PoolView[w].langs = workers[w].langs
                               /\ PoolView[w].room > 0 <=> HasRoom(w)
    BY <1>a DEF Pool!Pooled, PoolView, PoolEntry, HasRoom, IsAvailable, Entities
  <2>3. woken = IF w \in Pool!Pooled /\ PoolView[w].room > 0 THEN PoolView[w].langs ELSE {}
    BY <2>2 DEF HasRoom
  <2>4. PoolView' = PoolView
    BY <2>1 DEF PoolView, Registered
  <2> QED BY <2>1, <2>3, <2>4, SamePhases DEF Pool!Announce, Pool!None, None
<1> QED BY <1>1, <1>2, <1>3, <1>4, <1>5, <1>6, <1>7, <1>8 DEF Caller, Pool!Caller, Pool!Next

\* RoundRobinLoadBalancer implements the pool: whatever its slots, tombstones and
\* lazily parked workers do, its callers see workers that are free when they are
\* handed out, no sleep beside a free one and a wake-up for each that turns free.
THEOREM BalancerImplementsPool == Spec => ImplementsPool
<1>1. Init => Pool!Init
  BY DEF Init, Pool!Init, PoolView, Registered, None, Pool!None
<1>2. Init => Reachable
  BY DEF Init, Reachable, Free, Supports, Registered
<1>3. Typed /\ TombstonesAreTheDeadSlots /\ Reachable /\ [Next]_vars => Reachable'
  BY ReachableStep
<1>4. Typed /\ TombstonesAreTheDeadSlots /\ Reachable /\ [Next]_vars => [Pool!Next]_(Pool!vars)
  <2> SUFFICES ASSUME Typed, TombstonesAreTheDeadSlots, Reachable, [Next]_vars
               PROVE  Pool!Next \/ UNCHANGED Pool!vars
    OBVIOUS
  <2>1. CASE UNCHANGED vars
    BY <2>1 DEF vars, Pool!vars, PoolView, Registered
  <2>2. ASSUME NEW w \in Workers, Environment(w) PROVE Pool!Next \/ UNCHANGED Pool!vars
    BY <2>2, RegistrySimulates
  <2>3. CASE MonitorWake
    BY <2>3 DEF MonitorWake, callers, Pool!vars, PoolView, Registered
  <2>4. ASSUME NEW w \in Workers, MonitorDrop(w) PROVE Pool!Next
    BY <2>4, RegistrySimulates
  <2>5. ASSUME NEW d \in Dispatchers, Caller(d) PROVE Pool!Next
    BY <2>5, CallersSimulate
  <2> QED BY <2>1, <2>2, <2>3, <2>4, <2>5 DEF Next, Monitor
<1> QED BY <1>1, <1>2, <1>3, <1>4, TypesAndSlots, DeadSlots, PTL
        DEF Spec, ImplementsPool, Pool!Spec, Typed
=============================================================================
