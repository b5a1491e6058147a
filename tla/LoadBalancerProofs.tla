-------------------------- MODULE LoadBalancerProofs --------------------------
(***************************************************************************)
(* What LoadBalancer guarantees for any number of workers, languages and   *)
(* callers.                                                                *)
(***************************************************************************)
EXTENDS LoadBalancer, RingTheorems, FiniteSetTheorems

\* The deques, as a family of sets of slots without repetitions.
Rings(qs) == \A l \in Languages : IsInjective(qs[l])
SlotsIn(qs, l) == ToSet(qs[l])

-----------------------------------------------------------------------------
(* What each operation does to the set of slots of a language.              *)

\* get_worker pops what precedes the slot it returns and keeps the rest.
LEMMA RotateToRing ==
  ASSUME NEW S, NEW q \in Seq(S), IsInjective(q), NEW i \in 1..Len(q)
  PROVE  /\ RotateTo(q, i) \in Seq(S)
         /\ IsInjective(RotateTo(q, i))
         /\ ToSet(RotateTo(q, i)) = ToSet(q) \ {q[j] : j \in 1..(i - 1)}
BY RotateRing DEF RotateTo

\* register() and mark_worker_as_available() leave one slot in every language of
\* the entity, none in a language it gave up, and the rest as it was.
LEMMA RegisterSlotsType ==
  ASSUME NEW qs \in [Languages -> Seq(Workers)], Rings(qs),
         NEW w \in Workers, NEW old, NEW new
  PROVE  /\ RegisterDeques(qs, w, old, new) \in [Languages -> Seq(Workers)]
         /\ Rings(RegisterDeques(qs, w, old, new))
<1> DEFINE rs == RegisterDeques(qs, w, old, new)
<1>1. ASSUME NEW l \in Languages
      PROVE  rs[l] \in Seq(Workers) /\ IsInjective(rs[l])
  <2>1. qs[l] \in Seq(Workers) /\ IsInjective(qs[l])
    BY DEF Rings
  <2>2. \/ rs[l] = qs[l]
        \/ rs[l] = Append(qs[l], w) /\ w \notin ToSet(qs[l])
        \/ rs[l] = RemoveFirst(qs[l], w)
    BY <2>1, ContainsIsMembership DEF RegisterDeques
  <2> HIDE DEF rs
  <2>3. CASE rs[l] = qs[l]
    BY <2>1, <2>3
  <2>4. CASE rs[l] = Append(qs[l], w) /\ w \notin ToSet(qs[l])
    BY <2>1, <2>4, AppendRing
  <2>5. CASE rs[l] = RemoveFirst(qs[l], w)
    BY <2>1, <2>5, RemoveFirstRing
  <2> QED BY <2>2, <2>3, <2>4, <2>5
<1>2. rs = [l \in Languages |-> rs[l]]
  BY DEF RegisterDeques
<1> HIDE DEF rs
<1>3. rs \in [Languages -> Seq(Workers)]
  BY <1>1, <1>2
<1> QED BY <1>1, <1>3 DEF Rings, rs

LEMMA RegisterSlots ==
  ASSUME NEW qs \in [Languages -> Seq(Workers)], Rings(qs),
         NEW w \in Workers, NEW old, NEW new, NEW l \in Languages
  PROVE  SlotsIn(RegisterDeques(qs, w, old, new), l) =
           IF l \in new THEN SlotsIn(qs, l) \cup {w}
           ELSE IF l \in old THEN SlotsIn(qs, l) \ {w} ELSE SlotsIn(qs, l)
<1> DEFINE rs == RegisterDeques(qs, w, old, new)
<1> USE DEF SlotsIn
<1>1. qs[l] \in Seq(Workers) /\ IsInjective(qs[l])
  BY DEF Rings
<1>2. CASE l \in new /\ Contains(qs[l], w)
  <2>1. rs[l] = qs[l] /\ w \in ToSet(qs[l])
    BY <1>1, <1>2, ContainsIsMembership DEF RegisterDeques
  <2> QED BY <1>2, <2>1
<1>3. CASE l \in new /\ ~Contains(qs[l], w)
  <2>1. rs[l] = Append(qs[l], w)
    BY <1>3 DEF RegisterDeques
  <2> QED BY <1>1, <1>3, <2>1, AppendRing
<1>4. CASE l \notin new /\ l \in old
  <2>1. rs[l] = RemoveFirst(qs[l], w)
    BY <1>4 DEF RegisterDeques
  <2> QED BY <1>1, <1>4, <2>1, RemoveFirstRing
<1>5. CASE l \notin new /\ l \notin old
  <2>1. rs[l] = qs[l]
    BY <1>5 DEF RegisterDeques
  <2> QED BY <1>5, <2>1
<1> QED BY <1>2, <1>3, <1>4, <1>5

\* _unregister() removes at most the slot of w, and only at a head.
LEMMA UnregisterSlotsType ==
  ASSUME NEW qs \in [Languages -> Seq(Workers)], Rings(qs), NEW w, NEW ls
  PROVE  /\ UnregisterDeques(qs, w, ls) \in [Languages -> Seq(Workers)]
         /\ Rings(UnregisterDeques(qs, w, ls))
<1> DEFINE rs == UnregisterDeques(qs, w, ls)
<1>1. ASSUME NEW l \in Languages
      PROVE  rs[l] \in Seq(Workers) /\ IsInjective(rs[l])
  <2>1. qs[l] \in Seq(Workers) /\ IsInjective(qs[l])
    BY DEF Rings
  <2>2. \/ rs[l] = qs[l]
        \/ qs[l] # <<>> /\ rs[l] = Tail(qs[l])
    BY DEF UnregisterDeques, AtHead
  <2> HIDE DEF rs
  <2> QED BY <2>1, <2>2, TailRing
<1>2. rs = [l \in Languages |-> rs[l]]
  BY DEF UnregisterDeques
<1> HIDE DEF rs
<1>3. rs \in [Languages -> Seq(Workers)]
  BY <1>1, <1>2
<1> QED BY <1>1, <1>3 DEF Rings, rs

LEMMA UnregisterSlots ==
  ASSUME NEW qs \in [Languages -> Seq(Workers)], Rings(qs), NEW w, NEW ls,
         NEW l \in Languages
  PROVE  SlotsIn(UnregisterDeques(qs, w, ls), l) =
           IF l \in ls /\ AtHead(qs[l], w) THEN SlotsIn(qs, l) \ {w} ELSE SlotsIn(qs, l)
<1> DEFINE rs == UnregisterDeques(qs, w, ls)
<1> USE DEF SlotsIn
<1>1. qs[l] \in Seq(Workers) /\ IsInjective(qs[l])
  BY DEF Rings
<1>2. CASE l \in ls /\ AtHead(qs[l], w)
  <2>1. rs[l] = Tail(qs[l]) /\ qs[l] # <<>> /\ Head(qs[l]) = w
    BY <1>2 DEF UnregisterDeques, AtHead
  <2> QED BY <1>1, <1>2, <2>1, TailRing
<1>3. CASE ~(l \in ls /\ AtHead(qs[l], w))
  <2>1. rs[l] = qs[l]
    BY <1>3 DEF UnregisterDeques
  <2> QED BY <1>3, <2>1
<1> QED BY <1>2, <1>3

-----------------------------------------------------------------------------
(* Types, and one slot per worker and language.                             *)

\* Callers are always in a place CallersAfter knows, and it detaches only
\* callers that hold a worker.
LEMMA CallersAfterType ==
  ASSUME TypeOK, NEW w, NEW ls
  PROVE  /\ CallersAfter(w, ls) \in [Dispatchers -> Places]
         /\ \A d \in Dispatchers :
              /\ CallersAfter(w, ls)[d] \in {"ready", "waiting"} => want[d] \in Languages
              /\ CallersAfter(w, ls)[d] \in {"offered", "running", "detached", "released"}
                   => held[d] \in Workers
              /\ CallersAfter(w, ls)[d] \in {"offered", "running"}
                   => held[d] \in Registered /\ held[d] # w
BY DEF TypeOK, CallersAfter, Places

LEMMA NewEntityType ==
  ASSUME NEW p \in Profiles
  PROVE  /\ NewEntity(p) \in Entities
         /\ NewEntity(p).langs = p.langs
         /\ p.langs \subseteq Languages
         /\ NewEntity(p).workload = 0
         /\ NewEntity(p).capacity = p.capacity
         /\ p.capacity \in Int
BY ProfilesAssumption DEF NewEntity, Entities, HeartbeatAges

\* Changing one field of one entity keeps the registry well typed.
LEMMA EntityUpdateType ==
  ASSUME TypeOK, NEW w \in Registered
  PROVE  /\ workers[w] \in Entities
         /\ \A n \in {1, -1} :
              [workers EXCEPT ![w].workload = @ + n] \in [Registered -> Entities]
         /\ \A a \in HeartbeatAges :
              [workers EXCEPT ![w].heartbeat = a] \in [Registered -> Entities]
<1>1. workers \in [Registered -> Entities] /\ workers[w] \in Entities
  BY DEF TypeOK
<1>2. ASSUME NEW n \in {1, -1}
      PROVE  [workers EXCEPT ![w].workload = @ + n] \in [Registered -> Entities]
  <2>1. n \in Int
    OBVIOUS
  <2>2. [workers[w] EXCEPT !.workload = @ + n] \in Entities
    BY <1>1, <2>1 DEF Entities
  <2> QED BY <1>1, <2>2
<1>3. ASSUME NEW a \in HeartbeatAges
      PROVE  [workers EXCEPT ![w].heartbeat = a] \in [Registered -> Entities]
  <2>1. [workers[w] EXCEPT !.heartbeat = a] \in Entities
    BY <1>1 DEF Entities
  <2> QED BY <1>1, <2>1
<1> QED BY <1>1, <1>2, <1>3

Typed == TypeOK /\ SlotsAreUnique

LEMMA TypedStep ==
  ASSUME Typed, [Next]_vars
  PROVE  Typed'
<1> USE DEF Typed
<1>a. Rings(deques) /\ deques \in [Languages -> Seq(Workers)]
  BY DEF SlotsAreUnique, Rings, TypeOK
<1>1. ASSUME NEW w \in Workers, NEW p \in Profiles, Register(w, p) PROVE Typed'
  <2>1. workers' \in [Registered \cup {w} -> Entities] /\ Registered' = Registered \cup {w}
    BY <1>1, NewEntityType DEF Register, Put, TypeOK, Registered
  <2>2. deques' \in [Languages -> Seq(Workers)] /\ Rings(deques')
    BY <1>1, <1>a, RegisterSlotsType DEF Register
  <2>3. /\ tombs' \in [Languages -> SUBSET Workers] /\ full' \subseteq Workers
        /\ expiring' \subseteq Registered'
    BY <1>1, <2>1 DEF Register, ClearTombs, TypeOK
  <2>4. pc' = CallersAfter(w, WakesFor(NewEntity(p))) /\ want' = want /\ held' = held
    BY <1>1 DEF Register
  <2> QED BY <2>1, <2>2, <2>3, <2>4, CallersAfterType DEF TypeOK, SlotsAreUnique, Rings
<1>2. ASSUME NEW w \in Workers, NEW p \in Profiles, Reregister(w, p) PROVE Typed'
  <2>1. workers' \in [Registered \cup {w} -> Entities] /\ Registered' = Registered \cup {w}
    BY <1>2, NewEntityType DEF Reregister, Put, TypeOK, Registered
  <2>2. deques' \in [Languages -> Seq(Workers)] /\ Rings(deques')
    BY <1>2, <1>a, UnregisterSlotsType, RegisterSlotsType DEF Reregister
  <2>3. /\ tombs' \in [Languages -> SUBSET Workers] /\ full' \subseteq Workers
        /\ expiring' \subseteq Registered'
    BY <1>2, <2>1 DEF Reregister, ClearTombs, UnregisterTombs, TypeOK
  <2>4. pc' = CallersAfter(w, WakesFor(NewEntity(p))) /\ want' = want /\ held' = held
    BY <1>2 DEF Reregister
  <2> QED BY <2>1, <2>2, <2>3, <2>4, CallersAfterType DEF TypeOK, SlotsAreUnique, Rings
<1>3. ASSUME NEW w \in Workers, Drop(w), expiring' \subseteq expiring \ {w} PROVE Typed'
  <2>1. workers' \in [Registered \ {w} -> Entities] /\ Registered' = Registered \ {w}
    BY <1>3 DEF Drop, Restrict, TypeOK, Registered
  <2>2. deques' \in [Languages -> Seq(Workers)] /\ Rings(deques')
    BY <1>3, <1>a, UnregisterSlotsType DEF Drop
  <2>3. /\ tombs' \in [Languages -> SUBSET Workers] /\ full' \subseteq Workers
        /\ expiring' \subseteq Registered'
    BY <1>3, <2>1 DEF Drop, UnregisterTombs, TypeOK
  <2>4. pc' = CallersAfter(w, {}) /\ want' = want /\ held' = held
    BY <1>3 DEF Drop
  <2> QED BY <2>1, <2>2, <2>3, <2>4, CallersAfterType DEF TypeOK, SlotsAreUnique, Rings
<1>4. ASSUME NEW w \in Workers, Unregister(w) PROVE Typed'
  BY <1>3, <1>4 DEF Unregister
<1>5. ASSUME NEW w \in Workers, NEW a \in HeartbeatAges, SetHeartbeat(w, a) PROVE Typed'
  <2>1. workers' \in [Registered -> Entities] /\ Registered' = Registered
    BY <1>5, EntityUpdateType DEF SetHeartbeat, Registered
  <2> QED BY <1>5, <2>1 DEF SetHeartbeat, balancer, callers, TypeOK, SlotsAreUnique
<1>6. ASSUME NEW w \in Workers, Heartbeat(w) \/ ForgetHeartbeat(w) \/ Age(w) PROVE Typed'
  BY <1>5, <1>6 DEF Heartbeat, ForgetHeartbeat, Age, HeartbeatAges
<1>7. CASE MonitorWake
  BY <1>7 DEF MonitorWake, Expired, TypeOK, SlotsAreUnique, balancer, callers, Registered
<1>8. ASSUME NEW w \in Workers, MonitorDrop(w) PROVE Typed'
  BY <1>3, <1>8 DEF MonitorDrop
<1>9. ASSUME NEW d \in Dispatchers, NEW l \in Languages, Request(d, l) PROVE Typed'
  BY <1>9 DEF Request, balancer, TypeOK, SlotsAreUnique, Places, Registered
<1>10. ASSUME NEW d \in Dispatchers, Serve(d) PROVE Typed'
  <2> DEFINE l == want[d]
             q == deques[l]
  <2>1. l \in Languages /\ q \in Seq(Workers) /\ IsInjective(q)
    BY <1>10, <1>a DEF Serve, TypeOK, Rings
  <2>2. PICK i \in 1..Len(q) :
          /\ Live(q[i], l)
          /\ deques' = [deques EXCEPT ![l] = RotateTo(q, i)]
          /\ PopTombs(l, i - 1)
          /\ ParkFull(l, i - 1)
          /\ held' = [held EXCEPT ![d] = q[i]]
          /\ \/ /\ workers' = [workers EXCEPT ![q[i]].workload = @ + 1]
                /\ pc' = [pc EXCEPT ![d] = "running"]
             \/ /\ UNCHANGED workers
                /\ pc' = [pc EXCEPT ![d] = "offered"]
    BY <1>10 DEF Serve
  <2>3. q[i] \in Registered /\ q[i] \in Workers
    BY <2>1, <2>2 DEF Live, HasRoom
  <2>4. workers' \in [Registered -> Entities] /\ Registered' = Registered
    <3> HIDE DEF l, q
    <3>1. CASE workers' = [workers EXCEPT ![q[i]].workload = @ + 1]
      BY <2>3, <3>1, EntityUpdateType DEF Registered
    <3>2. CASE UNCHANGED workers
      BY <3>2 DEF Registered, TypeOK
    <3> QED BY <2>2, <3>1, <3>2
  <2>5. deques' \in [Languages -> Seq(Workers)] /\ Rings(deques')
    BY <1>a, <2>1, <2>2, RotateToRing DEF Rings
  <2>6. /\ tombs' \in [Languages -> SUBSET Workers] /\ full' \subseteq Workers
        /\ expiring' = expiring
    BY <1>10, <2>2 DEF Serve, PopTombs, ParkFull, TypeOK
  <2>7. want' = [want EXCEPT ![d] = None]
    BY <1>10 DEF Serve
  <2> HIDE DEF l, q
  <2> QED BY <2>2, <2>3, <2>4, <2>5, <2>6, <2>7 DEF TypeOK, SlotsAreUnique, Rings, Places
<1>11. ASSUME NEW d \in Dispatchers, Block(d) PROVE Typed'
  <2>1. want[d] \in Languages
    BY <1>11 DEF Block, TypeOK
  <2>2. deques' = [deques EXCEPT ![want[d]] = <<>>] /\ IsInjective(<<>>)
    BY <1>11 DEF Block, IsInjective
  <2>3. deques' \in [Languages -> Seq(Workers)] /\ Rings(deques')
    BY <1>a, <2>1, <2>2 DEF Rings
  <2>4. tombs' \in [Languages -> SUBSET Workers] /\ full' \subseteq Workers
    BY <1>11 DEF Block, PopTombs, ParkFull, TypeOK
  <2>5. /\ UNCHANGED <<workers, expiring, want, held>>
        /\ pc' = [pc EXCEPT ![d] = "waiting"]
    BY <1>11 DEF Block
  <2> QED BY <2>1, <2>3, <2>4, <2>5 DEF TypeOK, SlotsAreUnique, Rings, Places, Registered
<1>12. ASSUME NEW d \in Dispatchers, GiveUp(d) PROVE Typed'
  BY <1>12 DEF GiveUp, balancer, TypeOK, SlotsAreUnique, Places, Registered
<1>13. ASSUME NEW d \in Dispatchers, Claim(d) PROVE Typed'
  <2>1. held[d] \in Registered
    BY <1>13 DEF Claim, TypeOK
  <2>2. workers' \in [Registered -> Entities] /\ Registered' = Registered
    BY <1>13, <2>1, EntityUpdateType DEF Claim, Registered
  <2> QED BY <1>13, <2>1, <2>2 DEF Claim, balancer, TypeOK, SlotsAreUnique, Places
<1>14. ASSUME NEW d \in Dispatchers, Decline(d) PROVE Typed'
  BY <1>14 DEF Decline, balancer, TypeOK, SlotsAreUnique, Places, Registered
<1>15. ASSUME NEW d \in Dispatchers, Finish(d) PROVE Typed'
  <2>1. held[d] \in Workers /\ (pc[d] = "running" => held[d] \in Registered)
    BY <1>15 DEF Finish, TypeOK
  <2>2. workers' \in [Registered -> Entities] /\ Registered' = Registered
    <3>1. CASE pc[d] = "running"
      <4>1. workers' = [workers EXCEPT ![held[d]].workload = @ - 1]
        BY <1>15, <3>1 DEF Finish
      <4>2. workers' = [workers EXCEPT ![held[d]].workload = @ + (-1)]
        BY <2>1, <3>1, <4>1 DEF TypeOK, Entities
      <4> QED BY <2>1, <3>1, <4>2, EntityUpdateType DEF Registered
    <3>2. CASE pc[d] # "running"
      BY <1>15, <3>2 DEF Finish, TypeOK, Registered
    <3> QED BY <3>1, <3>2
  <2> QED BY <1>15, <2>1, <2>2 DEF Finish, balancer, TypeOK, SlotsAreUnique, Places
<1>16. ASSUME NEW d \in Dispatchers, MarkAvailable(d) PROVE Typed'
  <2>1. /\ UNCHANGED <<workers, expiring, want>>
        /\ held' = [held EXCEPT ![d] = None]
        /\ \E ls : pc' = [CallersAfter(None, ls) EXCEPT ![d] = "idle"]
    BY <1>16 DEF MarkAvailable
  <2>2. /\ deques' \in [Languages -> Seq(Workers)] /\ Rings(deques')
        /\ tombs' \in [Languages -> SUBSET Workers] /\ full' \subseteq Workers
    <3>1. CASE UNCHANGED balancer
      BY <1>a, <3>1 DEF balancer, TypeOK
    <3>2. CASE /\ deques' = RegisterDeques(deques, held[d], {}, workers[held[d]].langs)
               /\ tombs' = ClearTombs(tombs, held[d], workers[held[d]].langs)
               /\ full' = full \ {held[d]}
      <4>1. held[d] \in Workers
        BY <1>16 DEF MarkAvailable, TypeOK
      <4>2. deques' \in [Languages -> Seq(Workers)] /\ Rings(deques')
        BY <1>a, <3>2, <4>1, RegisterSlotsType
      <4> QED BY <3>2, <4>2 DEF ClearTombs, TypeOK
    <3> QED BY <1>16, <3>1, <3>2 DEF MarkAvailable
  <2> QED BY <2>1, <2>2, CallersAfterType
          DEF TypeOK, SlotsAreUnique, Rings, Places, Registered
<1>17. CASE UNCHANGED vars
  BY <1>17 DEF vars, TypeOK, SlotsAreUnique, Registered
<1> QED BY <1>1, <1>2, <1>4, <1>6, <1>7, <1>8, <1>9, <1>10, <1>11, <1>12, <1>13, <1>14,
           <1>15, <1>16, <1>17 DEF Next, Environment, Monitor, Caller

\* Every variable keeps its type, and no worker ever has two slots in the deque of
\* a language, whatever the order of registrations, removals and releases.
THEOREM TypesAndSlots == Spec => [](TypeOK /\ SlotsAreUnique)
<1>1. Init => Typed
  BY DEF Init, Typed, TypeOK, SlotsAreUnique, IsInjective, Places, Registered
<1>2. Typed /\ [Next]_vars => Typed'
  BY TypedStep
<1> QED BY <1>1, <1>2, PTL DEF Spec, Typed

-----------------------------------------------------------------------------
(* Lazy removal: the tombstones are the dead slots.                         *)

\* Steps that leave the registry's ids and languages, the deques and the
\* tombstones alone leave their relation alone.
LEMMA DeadSlotsFrame ==
  ASSUME Typed, TombstonesAreTheDeadSlots,
         Registered' = Registered, \A w \in Registered : workers'[w].langs = workers[w].langs,
         deques' = deques, tombs' = tombs
  PROVE  TombstonesAreTheDeadSlots'
BY DEF TombstonesAreTheDeadSlots, Slots, Supports

\* A step of one field of one entity is such a step.
LEMMA FieldFrame ==
  ASSUME Typed, NEW w \in Registered, NEW v,
         \/ workers' = [workers EXCEPT ![w].workload = v]
         \/ workers' = [workers EXCEPT ![w].heartbeat = v]
  PROVE  /\ Registered' = Registered
         /\ \A x \in Registered : /\ workers'[x].langs = workers[x].langs
                                  /\ workers'[x].capacity = workers[x].capacity
                                  /\ x # w => workers'[x] = workers[x]
<1>1. workers \in [Registered -> Entities]
  BY DEF Typed, TypeOK
<1>2. \A x \in Registered : workers[x] \in Entities
  BY <1>1
<1> QED BY <1>1, <1>2 DEF Registered, Entities

LEMMA DeadSlotsStep ==
  ASSUME Typed, TombstonesAreTheDeadSlots, [Next]_vars
  PROVE  TombstonesAreTheDeadSlots'
<1>a. /\ Rings(deques) /\ deques \in [Languages -> Seq(Workers)]
      /\ tombs \in [Languages -> SUBSET Workers]
  BY DEF Typed, SlotsAreUnique, Rings, TypeOK
<1>b. \A l \in Languages : \A x : x \in tombs[l] <=> x \in SlotsIn(deques, l) /\ ~Supports(x, l)
  BY <1>a DEF TombstonesAreTheDeadSlots, Slots, SlotsIn
<1>d. deques' \in [Languages -> Seq(Workers)] /\ tombs' \in [Languages -> SUBSET Workers]
  BY TypedStep DEF Typed, TypeOK
<1>c. SUFFICES ASSUME NEW l \in Languages, NEW x
               PROVE  x \in tombs'[l] <=> x \in SlotsIn(deques', l) /\ ~Supports(x, l)'
  BY <1>d, <1>c DEF TombstonesAreTheDeadSlots, Slots, SlotsIn
<1> DEFINE Goal == x \in tombs'[l] <=> x \in SlotsIn(deques', l) /\ ~Supports(x, l)'
<1>f. ASSUME Registered' = Registered, \A w \in Registered : workers'[w].langs = workers[w].langs,
             deques' = deques, tombs' = tombs
      PROVE  Goal
  BY <1>b, <1>f DEF Supports
<1>1. ASSUME NEW w \in Workers, NEW p \in Profiles, Register(w, p) PROVE Goal
  <2> DEFINE old == LanguagesOf(w)
             new == p.langs
  <2>1. /\ workers' = Put(workers, w, NewEntity(p)) /\ NewEntity(p).langs = new
        /\ deques' = RegisterDeques(deques, w, old, new)
        /\ tombs' = ClearTombs(tombs, w, old \cup new)
    BY <1>1, NewEntityType DEF Register
  <2>2. /\ Supports(x, l)' <=> IF x = w THEN l \in new ELSE Supports(x, l)
        /\ Supports(w, l) <=> l \in old
    BY <2>1 DEF Supports, Put, Registered, LanguagesOf
  <2> HIDE DEF old, new
  <2>3. SlotsIn(deques', l) = IF l \in new THEN SlotsIn(deques, l) \cup {w}
                            ELSE IF l \in old THEN SlotsIn(deques, l) \ {w} ELSE SlotsIn(deques, l)
    BY <1>a, <2>1, RegisterSlots
  <2>4. tombs'[l] = IF l \in old \cup new THEN tombs[l] \ {w} ELSE tombs[l]
    BY <2>1 DEF ClearTombs
  <2> QED BY <1>b, <2>2, <2>3, <2>4
<1>2. ASSUME NEW w \in Workers, NEW p \in Profiles, Reregister(w, p) PROVE Goal
  <2> DEFINE old == LanguagesOf(w)
             new == p.langs
             ds == UnregisterDeques(deques, w, old)
  <2>1. /\ workers' = Put(workers, w, NewEntity(p)) /\ NewEntity(p).langs = new
        /\ deques' = RegisterDeques(ds, w, {}, new)
        /\ tombs' = ClearTombs(UnregisterTombs(deques, tombs, w, old), w, new)
    BY <1>2, NewEntityType DEF Reregister
  <2>2. /\ Supports(x, l)' <=> IF x = w THEN l \in new ELSE Supports(x, l)
        /\ Supports(w, l) <=> l \in old
    BY <2>1 DEF Supports, Put, Registered, LanguagesOf
  <2>3. /\ ds \in [Languages -> Seq(Workers)] /\ Rings(ds)
        /\ SlotsIn(ds, l) = IF l \in old /\ AtHead(deques[l], w) THEN SlotsIn(deques, l) \ {w}
                          ELSE SlotsIn(deques, l)
    BY <1>a, UnregisterSlotsType, UnregisterSlots
  <2> HIDE DEF old, new, ds
  <2>4. SlotsIn(deques', l) = IF l \in new THEN SlotsIn(ds, l) \cup {w} ELSE SlotsIn(ds, l)
    BY <2>1, <2>3, RegisterSlots
  <2>5. tombs'[l] = IF l \in new THEN UnregisterTombs(deques, tombs, w, old)[l] \ {w}
                    ELSE UnregisterTombs(deques, tombs, w, old)[l]
    BY <2>1 DEF ClearTombs
  <2>6. UnregisterTombs(deques, tombs, w, old)[l] =
          IF l \in old /\ ~AtHead(deques[l], w) /\ w \in SlotsIn(deques, l)
          THEN tombs[l] \cup {w} ELSE tombs[l]
    BY <1>a, ContainsIsMembership DEF UnregisterTombs, SlotsIn
  <2> QED BY <1>b, <2>2, <2>3, <2>4, <2>5, <2>6
<1>3. ASSUME NEW w \in Workers, Drop(w) PROVE Goal
  <2> DEFINE old == workers[w].langs
  <2>1. /\ workers' = Restrict(workers, Registered \ {w}) /\ w \in Registered
        /\ deques' = UnregisterDeques(deques, w, old)
        /\ tombs' = UnregisterTombs(deques, tombs, w, old)
    BY <1>3 DEF Drop
  <2>2. /\ Supports(x, l)' <=> x # w /\ Supports(x, l)
        /\ Supports(w, l) <=> l \in old
    BY <2>1 DEF Supports, Restrict, Registered
  <2>3. SlotsIn(deques', l) = IF l \in old /\ AtHead(deques[l], w) THEN SlotsIn(deques, l) \ {w}
                            ELSE SlotsIn(deques, l)
    BY <1>a, <2>1, UnregisterSlots
  <2>4. tombs'[l] = IF l \in old /\ ~AtHead(deques[l], w) /\ w \in SlotsIn(deques, l)
                    THEN tombs[l] \cup {w} ELSE tombs[l]
    BY <1>a, <2>1, ContainsIsMembership DEF UnregisterTombs, SlotsIn
  <2> HIDE DEF old
  <2> QED BY <1>b, <2>2, <2>3, <2>4
<1>4. ASSUME NEW w \in Workers, NEW a, SetHeartbeat(w, a) PROVE Goal
  BY <1>4, <1>f, FieldFrame DEF SetHeartbeat, balancer
<1>5. ASSUME NEW d \in Dispatchers, Serve(d) PROVE Goal
  <2> DEFINE m == want[d]
             q == deques[m]
  <2>1. m \in Languages /\ q \in Seq(Workers) /\ IsInjective(q)
    BY <1>5, <1>a DEF Serve, Typed, TypeOK, Rings
  <2>2. PICK i \in 1..Len(q) :
          /\ Live(q[i], m)
          /\ deques' = [deques EXCEPT ![m] = RotateTo(q, i)]
          /\ PopTombs(m, i - 1)
          /\ \/ workers' = [workers EXCEPT ![q[i]].workload = @ + 1]
             \/ UNCHANGED workers
    BY <1>5 DEF Serve
  <2>3. /\ Registered' = Registered
        /\ \A w \in Registered : workers'[w].langs = workers[w].langs
    BY <2>2, FieldFrame DEF Live, HasRoom, Registered
  <2>4. Supports(x, l)' <=> Supports(x, l)
    BY <2>3 DEF Supports
  <2>5. CASE l = m
    <3>1. SlotsIn(deques', l) = ToSet(q) \ {q[j] : j \in 1..(i - 1)}
      BY <1>a, <2>1, <2>2, <2>5, RotateToRing DEF SlotsIn
    <3>2. tombs'[l] = tombs[l] \ {q[j] : j \in 1..(i - 1)}
      BY <1>a, <2>1, <2>2, <2>5 DEF PopTombs, Popped
    <3> QED BY <1>b, <2>4, <2>5, <3>1, <3>2 DEF SlotsIn
  <2>6. CASE l # m
    <3>1. deques'[l] = deques[l] /\ tombs'[l] = tombs[l]
      BY <1>a, <2>1, <2>2, <2>6 DEF PopTombs
    <3> QED BY <1>b, <2>4, <3>1 DEF SlotsIn
  <2> QED BY <2>5, <2>6
<1>6. ASSUME NEW d \in Dispatchers, Block(d) PROVE Goal
  <2> DEFINE m == want[d]
             q == deques[m]
  <2>1. m \in Languages /\ q \in Seq(Workers)
    BY <1>6, <1>a DEF Block, Typed, TypeOK
  <2>2. /\ deques' = [deques EXCEPT ![m] = <<>>]
        /\ PopTombs(m, Len(q))
        /\ UNCHANGED workers
    BY <1>6 DEF Block
  <2>3. Supports(x, l)' <=> Supports(x, l)
    BY <2>2 DEF Supports, Registered
  <2>4. CASE l = m
    <3>1. SlotsIn(deques', l) = {}
      BY <1>a, <2>2, <2>4 DEF ToSet, SlotsIn
    <3>2. tombs'[l] = tombs[l] \ SlotsIn(deques, l)
      BY <1>a, <2>1, <2>2, <2>4 DEF PopTombs, Popped, ToSet, SlotsIn
    <3> QED BY <1>b, <3>1, <3>2
  <2>5. CASE l # m
    <3>1. deques'[l] = deques[l] /\ tombs'[l] = tombs[l]
      BY <1>a, <2>2, <2>5 DEF PopTombs
    <3> QED BY <1>b, <2>3, <3>1 DEF SlotsIn
  <2> QED BY <2>4, <2>5
<1>7. ASSUME NEW d \in Dispatchers, Claim(d) \/ Finish(d) PROVE Goal
  <2>1. deques' = deques /\ tombs' = tombs
    BY <1>7 DEF Claim, Finish, balancer
  <2>2. CASE pc[d] \in {"offered", "running"}
    <3>1. held[d] \in Registered
      BY <2>2 DEF Typed, TypeOK
    <3>2. \/ workers' = [workers EXCEPT ![held[d]].workload = workers[held[d]].workload + 1]
          \/ workers' = [workers EXCEPT ![held[d]].workload = workers[held[d]].workload - 1]
      BY <1>7, <2>2 DEF Claim, Finish
    <3> QED BY <2>1, <3>1, <3>2, <1>f, FieldFrame
  <2>3. CASE pc[d] \notin {"offered", "running"}
    <3>1. UNCHANGED workers
      BY <1>7, <2>3 DEF Claim, Finish
    <3> QED BY <2>1, <3>1, <1>f DEF Registered
  <2> QED BY <2>2, <2>3
<1>8. ASSUME NEW d \in Dispatchers, MarkAvailable(d) PROVE Goal
  <2> DEFINE w == held[d]
  <2>1. workers' = workers /\ (Supports(x, l)' <=> Supports(x, l))
    BY <1>8 DEF MarkAvailable, Supports, Registered
  <2>2. CASE UNCHANGED balancer
    BY <1>b, <2>1, <2>2 DEF balancer
  <2>3. CASE /\ w \in Registered
             /\ deques' = RegisterDeques(deques, w, {}, workers[w].langs)
             /\ tombs' = ClearTombs(tombs, w, workers[w].langs)
    <3> DEFINE ls == workers[w].langs
    <3>1. w \in Workers
      BY <2>3 DEF Typed, TypeOK
    <3>4. Supports(w, l) <=> l \in ls
      BY <2>3 DEF Supports
    <3> HIDE DEF ls, w
    <3>2. SlotsIn(deques', l) = IF l \in ls THEN SlotsIn(deques, l) \cup {w} ELSE SlotsIn(deques, l)
      <4>1. deques' = RegisterDeques(deques, w, {}, ls)
        BY <2>3 DEF ls
      <4> QED BY <1>a, <3>1, <4>1, RegisterSlots
    <3>3. tombs'[l] = IF l \in ls THEN tombs[l] \ {w} ELSE tombs[l]
      BY <2>3 DEF ClearTombs, ls
    <3> QED BY <1>b, <2>1, <3>2, <3>3, <3>4
  <2> QED BY <1>8, <2>2, <2>3 DEF MarkAvailable, HasRoom
<1>9. ASSUME UNCHANGED <<workers, balancer>> PROVE Goal
  BY <1>b, <1>9 DEF balancer, Supports, Registered
<1>10. CASE UNCHANGED vars
  BY <1>9, <1>10 DEF vars, balancer
<1>11. ASSUME NEW w \in Workers, Environment(w) PROVE Goal
  BY <1>1, <1>2, <1>3, <1>4, <1>11
     DEF Environment, Unregister, Heartbeat, ForgetHeartbeat, Age
<1>12. CASE Monitor
  BY <1>3, <1>9, <1>12 DEF Monitor, MonitorWake, MonitorDrop
<1>13. ASSUME NEW d \in Dispatchers, Caller(d) PROVE Goal
  BY <1>5, <1>6, <1>7, <1>8, <1>9, <1>13 DEF Caller, Request, GiveUp, Decline
<1> QED BY <1>10, <1>11, <1>12, <1>13 DEF Next

\* No live slot is ever treated as removed and no dead one as live.
THEOREM DeadSlots == Spec => []TombstonesAreTheDeadSlots
<1>1. Init => TombstonesAreTheDeadSlots
  BY DEF Init, TombstonesAreTheDeadSlots, Slots, ToSet
<1>2. Typed /\ TombstonesAreTheDeadSlots /\ [Next]_vars => TombstonesAreTheDeadSlots'
  BY DeadSlotsStep
<1> QED BY <1>1, <1>2, TypesAndSlots, PTL DEF Spec, Typed

-----------------------------------------------------------------------------
(* No worker is lost and no wake-up is lost.                                *)

\* The two invariants in one form: a worker that is free for l is in the deque
\* of l or about to be put back, and about to be put back if l has sleepers.
Reachable ==
  \A l \in Languages : \A x :
    Free(x, l) /\ ~ReleasePending(x) =>
      /\ x \in SlotsIn(deques, l)
      /\ \A d \in Dispatchers : ~(pc[d] = "waiting" /\ want[d] = l)

LEMMA ReachableMeaning ==
  ASSUME Typed
  PROVE  Reachable <=> NoWorkerIsLost /\ NoLostWakeup
<1>1. ASSUME Reachable PROVE NoWorkerIsLost /\ NoLostWakeup
  BY <1>1 DEF Reachable, NoWorkerIsLost, NoLostWakeup, Free, Supports, Slots, SlotsIn, Typed, TypeOK
<1>2. ASSUME NoWorkerIsLost, NoLostWakeup PROVE Reachable
  BY <1>2 DEF Reachable, NoWorkerIsLost, NoLostWakeup, Free, Supports, Slots, SlotsIn
<1> QED BY <1>1, <1>2

\* Setting events and replacing entities starts no wait and drops no release.
LEMMA CallersAfterKeeps ==
  ASSUME Typed, NEW w, NEW ls, NEW d \in Dispatchers
  PROVE  /\ CallersAfter(w, ls)[d] = "waiting" => pc[d] = "waiting" /\ want[d] \notin ls
         /\ CallersAfter(w, ls)[d] = "released" <=> pc[d] = "released"
BY DEF CallersAfter

\* A worker that is free for a language is not skipped by get_worker.
LEMMA FreeIsLive ==
  ASSUME Typed, TombstonesAreTheDeadSlots, NEW l \in Languages, NEW x, Free(x, l)
  PROVE  Live(x, l)
BY DEF TombstonesAreTheDeadSlots, Free, Supports, Live, HasRoom

\* More work makes no worker free.
LEMMA LoadRises ==
  ASSUME Typed, NEW w \in Registered, workers' = [workers EXCEPT ![w].workload = @ + 1],
         NEW x, NEW l, Supports(x, l)', IsAvailable(workers'[x])
  PROVE  Supports(x, l) /\ IsAvailable(workers[x])
<1>1. /\ Registered' = Registered
      /\ \A y \in Registered : /\ workers'[y].langs = workers[y].langs
                               /\ workers'[y].capacity = workers[y].capacity
                               /\ y # w => workers'[y] = workers[y]
  BY FieldFrame
<1>2. \A y \in Registered : workers[y] \in Entities
  BY DEF Typed, TypeOK
<1>3. workers'[w].workload = workers[w].workload + 1
  BY <1>2 DEF Registered, Entities, Typed, TypeOK
<1>4. x \in Registered /\ Supports(x, l)
  BY <1>1 DEF Supports
<1>5. workers[w].workload \in Int /\ workers[w].capacity \in Int
  BY <1>2 DEF Entities
<1>6. IsAvailable(workers[x])
  <2>1. CASE x = w
    BY <1>1, <1>3, <1>5, <2>1 DEF IsAvailable
  <2>2. CASE x # w
    BY <1>1, <1>4, <2>2
  <2> QED BY <2>1, <2>2
<1> QED BY <1>4, <1>6

LEMMA ReachableStep ==
  ASSUME Typed, TombstonesAreTheDeadSlots, Reachable, [Next]_vars
  PROVE  Reachable'
<1>a. /\ Rings(deques) /\ deques \in [Languages -> Seq(Workers)]
      /\ tombs \in [Languages -> SUBSET Workers]
      /\ pc \in [Dispatchers -> Places] /\ held \in [Dispatchers -> Workers \cup {None}]
      /\ workers \in [Registered -> Entities] /\ Registered \subseteq Workers
  BY DEF Typed, SlotsAreUnique, Rings, TypeOK
<1>e. Rings(deques) /\ deques \in [Languages -> Seq(Workers)]
  BY <1>a
<1>b. SUFFICES ASSUME NEW l \in Languages, NEW x, Free(x, l)', ~ReleasePending(x)'
               PROVE  /\ x \in SlotsIn(deques', l)
                      /\ \A d \in Dispatchers : ~(pc'[d] = "waiting" /\ want'[d] = l)
  BY <1>b DEF Reachable, SlotsIn
<1> DEFINE Goal == /\ x \in SlotsIn(deques', l)
                   /\ \A d \in Dispatchers : ~(pc'[d] = "waiting" /\ want'[d] = l)
<1>c. Free(x, l) /\ ~ReleasePending(x) =>
        /\ x \in SlotsIn(deques, l)
        /\ \A d \in Dispatchers : ~(pc[d] = "waiting" /\ want[d] = l)
  BY DEF Reachable
\* Steps that leave the deques and the releases alone and make nobody free or waiting.
<1>d. ASSUME Free(x, l), ReleasePending(x) => ReleasePending(x)', deques' = deques,
             \A d \in Dispatchers : pc'[d] = "waiting" => pc[d] = "waiting" /\ want'[d] = want[d]
      PROVE  Goal
  BY <1>b, <1>c, <1>d
<1>1. ASSUME NEW w \in Workers, NEW p \in Profiles, Register(w, p) \/ Reregister(w, p) PROVE Goal
  <2> DEFINE e == NewEntity(p)
             old == LanguagesOf(w)
             new == e.langs
  <2>1. /\ workers' = Put(workers, w, e) /\ want' = want /\ held' = held
        /\ pc' = CallersAfter(w, WakesFor(e))
    BY <1>1 DEF Register, Reregister
  <2>2. /\ x # w => Free(x, l)
        /\ x = w => l \in e.langs /\ IsAvailable(e)
    BY <1>b, <2>1 DEF Free, Supports, Put, Registered
  <2>3. \A d \in Dispatchers :
          /\ pc'[d] = "waiting" => pc[d] = "waiting" /\ want[d] \notin WakesFor(e)
          /\ pc'[d] = "released" <=> pc[d] = "released"
    BY <2>1, CallersAfterKeeps
  <2>4. ~ReleasePending(x)
    BY <1>b, <2>1, <2>3 DEF ReleasePending
  
<2>5. x # w /\ x \in SlotsIn(deques, l) => x \in SlotsIn(deques', l)
    <3> HIDE DEF e, old, new
    <3>1. CASE Register(w, p)
      <4>1. deques' = RegisterDeques(deques, w, old, new)
        BY <3>1 DEF Register, e, old, new
      <4>2. SlotsIn(deques', l) = IF l \in new THEN SlotsIn(deques, l) \cup {w}
                                  ELSE IF l \in old THEN SlotsIn(deques, l) \ {w}
                                  ELSE SlotsIn(deques, l)
        BY <1>e, <4>1, RegisterSlots
      <4> QED BY <4>2
    <3>2. CASE Reregister(w, p)
      <4> DEFINE ds == UnregisterDeques(deques, w, old)
      <4>1. deques' = RegisterDeques(ds, w, {}, new)
        BY <3>2 DEF Reregister, e, old, new
      <4>2. ds \in [Languages -> Seq(Workers)] /\ Rings(ds)
        BY <1>e, UnregisterSlotsType
      <4>3. SlotsIn(ds, l) = IF l \in old /\ AtHead(deques[l], w) THEN SlotsIn(deques, l) \ {w}
                             ELSE SlotsIn(deques, l)
        BY <1>e, UnregisterSlots
      <4> HIDE DEF ds
      <4>4. SlotsIn(deques', l) = IF l \in new THEN SlotsIn(ds, l) \cup {w}
                                  ELSE SlotsIn(ds, l)
        BY <4>1, <4>2, RegisterSlots
      <4> QED BY <4>3, <4>4
    <3> QED BY <1>1, <3>1, <3>2
  <2>6. x = w => x \in SlotsIn(deques', l)
    <3> HIDE DEF e, old, new
    <3>1. CASE Register(w, p)
      <4>1. deques' = RegisterDeques(deques, w, old, new)
        BY <3>1 DEF Register, e, old, new
      <4> QED BY <1>e, <2>2, <4>1, RegisterSlots DEF new
    <3>2. CASE Reregister(w, p)
      <4> DEFINE ds == UnregisterDeques(deques, w, old)
      <4>1. deques' = RegisterDeques(ds, w, {}, new)
        BY <3>2 DEF Reregister, e, old, new
      <4>2. ds \in [Languages -> Seq(Workers)] /\ Rings(ds)
        BY <1>e, UnregisterSlotsType
      <4> HIDE DEF ds
      <4> QED BY <2>2, <4>1, <4>2, RegisterSlots DEF new
    <3> QED BY <1>1, <3>1, <3>2
  <2>7. CASE x = w
    <3>1. WakesFor(e) = e.langs
      BY <2>2, <2>7 DEF WakesFor
    <3> QED BY <2>1, <2>2, <2>3, <2>6, <2>7, <3>1
  <2>8. CASE x # w
    BY <1>c, <2>1, <2>2, <2>3, <2>4, <2>5, <2>8
  <2> QED BY <2>7, <2>8
<1>2. ASSUME NEW w \in Workers, Drop(w) PROVE Goal
  <2>1. /\ workers' = Restrict(workers, Registered \ {w}) /\ want' = want /\ held' = held
        /\ deques' = UnregisterDeques(deques, w, workers[w].langs)
        /\ pc' = CallersAfter(w, {})
    BY <1>2 DEF Drop
  <2>2. x # w /\ Free(x, l)
    BY <1>b, <2>1 DEF Free, Supports, Restrict, Registered
  <2>3. \A d \in Dispatchers : /\ pc'[d] = "waiting" => pc[d] = "waiting"
                               /\ pc'[d] = "released" <=> pc[d] = "released"
    BY <2>1, CallersAfterKeeps
  <2>4. ~ReleasePending(x)
    BY <1>b, <2>1, <2>3 DEF ReleasePending
  <2>5. x \in SlotsIn(deques, l) => x \in SlotsIn(deques', l)
    <3> DEFINE ls == workers[w].langs
    <3> HIDE DEF ls
    <3>1. deques' = UnregisterDeques(deques, w, ls)
      BY <2>1 DEF ls
    <3>2. SlotsIn(deques', l) = IF l \in ls /\ AtHead(deques[l], w) THEN SlotsIn(deques, l) \ {w}
                                ELSE SlotsIn(deques, l)
      BY <1>e, <3>1, UnregisterSlots
    <3> QED BY <2>2, <3>2
  <2> QED BY <1>c, <2>1, <2>2, <2>3, <2>4, <2>5
<1>3. ASSUME NEW w \in Workers, NEW a, SetHeartbeat(w, a) PROVE Goal
  <2>1. /\ w \in Registered /\ workers' = [workers EXCEPT ![w].heartbeat = a]
        /\ UNCHANGED <<deques, pc, want, held>>
    BY <1>3 DEF SetHeartbeat, balancer, callers
  <2>2. Registered' = Registered
    BY <2>1, FieldFrame
  <2>3. \A y \in Registered : /\ workers'[y].langs = workers[y].langs
                              /\ workers'[y].capacity = workers[y].capacity
                              /\ workers'[y].workload = workers[y].workload
    <3>1. \A y \in Registered : workers[y] \in Entities
      BY <1>a
    <3> QED BY <1>a, <2>1, <3>1 DEF Entities
  <2>4. Free(x, l)
    BY <1>b, <2>2, <2>3 DEF Free, Supports, IsAvailable
  <2>5. ReleasePending(x) => ReleasePending(x)'
    BY <2>1 DEF ReleasePending
  <2> QED BY <1>d, <2>1, <2>4, <2>5
<1>4. ASSUME NEW d \in Dispatchers, Serve(d) PROVE Goal
  <2> DEFINE m == want[d]
             q == deques[m]
  <2>1. m \in Languages /\ q \in Seq(Workers) /\ IsInjective(q)
    BY <1>4, <1>a DEF Serve, Typed, TypeOK, Rings
  <2>2. PICK i \in 1..Len(q) :
          /\ Live(q[i], m)
          /\ \A j \in 1..(i - 1) : ~Live(q[j], m)
          /\ deques' = [deques EXCEPT ![m] = RotateTo(q, i)]
          /\ held' = [held EXCEPT ![d] = q[i]]
          /\ \/ /\ workers' = [workers EXCEPT ![q[i]].workload = @ + 1]
                /\ pc' = [pc EXCEPT ![d] = "running"]
             \/ /\ UNCHANGED workers
                /\ pc' = [pc EXCEPT ![d] = "offered"]
    BY <1>4 DEF Serve
  <2>3. pc[d] = "ready" /\ want' = [want EXCEPT ![d] = None]
    BY <1>4 DEF Serve
  <2>4. Free(x, l)
    <3>1. CASE workers' = [workers EXCEPT ![q[i]].workload = @ + 1]
      <4> HIDE DEF m, q
      <4>1. q[i] \in Registered
        BY <2>2 DEF Live, HasRoom
      <4> QED BY <1>b, <3>1, <4>1, LoadRises DEF Free
    <3>2. CASE UNCHANGED workers
      BY <1>b, <3>2 DEF Free, Supports, Registered
    <3> QED BY <2>2, <3>1, <3>2
  <2> HIDE DEF m
  <2>5. \A c \in Dispatchers : pc[c] = "released" => pc'[c] = "released" /\ held'[c] = held[c]
    <3> HIDE DEF q
    <3> QED BY <1>a, <2>2, <2>3
  <2>6. \A c \in Dispatchers : pc'[c] = "waiting" => pc[c] = "waiting" /\ want'[c] = want[c]
    <3> HIDE DEF q
    <3> QED BY <1>a, <2>2, <2>3 DEF Typed, TypeOK
  <2>7. ~ReleasePending(x)
    BY <1>b, <2>5 DEF ReleasePending
  <2>8. x \in SlotsIn(deques', l)
    <3>1. CASE l = m
      <4>1. SlotsIn(deques', l) = ToSet(q) \ {q[j] : j \in 1..(i - 1)}
        BY <1>a, <2>1, <2>2, <3>1, RotateToRing DEF SlotsIn
      <4>2. Live(x, l)
        BY <2>4, FreeIsLive
      <4> QED BY <1>c, <2>2, <2>4, <2>7, <3>1, <4>1, <4>2 DEF SlotsIn
    <3>2. CASE l # m
      <4>1. deques'[l] = deques[l]
        BY <1>a, <2>1, <2>2, <3>2
      <4> QED BY <1>c, <2>4, <2>7, <4>1 DEF SlotsIn
    <3> QED BY <3>1, <3>2
  <2> QED BY <1>c, <2>4, <2>6, <2>7, <2>8
<1>5. ASSUME NEW d \in Dispatchers, Block(d) PROVE Goal
  <2> DEFINE m == want[d]
             q == deques[m]
  <2>1. m \in Languages /\ q \in Seq(Workers)
    BY <1>5, <1>a DEF Block, Typed, TypeOK
  <2>2. /\ \A i \in 1..Len(q) : ~Live(q[i], m)
        /\ deques' = [deques EXCEPT ![m] = <<>>]
        /\ pc[d] = "ready" /\ pc' = [pc EXCEPT ![d] = "waiting"]
        /\ UNCHANGED <<workers, want, held>>
    BY <1>5 DEF Block
  <2>3. Free(x, l) /\ Live(x, l)
    BY <1>b, <2>2, FreeIsLive DEF Free, Supports, Registered
  <2>4. ~ReleasePending(x)
    BY <1>a, <1>b, <2>2 DEF ReleasePending
  <2>5. x \in SlotsIn(deques, l)
    BY <1>c, <2>3, <2>4
  <2>6. l # m
    BY <2>1, <2>2, <2>3, <2>5 DEF SlotsIn, ToSet
  <2>7. SlotsIn(deques', l) = SlotsIn(deques, l)
    BY <1>a, <2>1, <2>2, <2>6 DEF SlotsIn
  <2> QED BY <1>a, <1>c, <2>2, <2>3, <2>4, <2>5, <2>6, <2>7
<1>6. ASSUME NEW d \in Dispatchers, Claim(d) PROVE Goal
  <2>1. /\ held[d] \in Registered
        /\ workers' = [workers EXCEPT ![held[d]].workload = @ + 1]
        /\ pc[d] = "offered" /\ pc' = [pc EXCEPT ![d] = "running"]
        /\ UNCHANGED <<deques, want, held>>
    BY <1>6 DEF Claim, balancer, Typed, TypeOK
  <2>2. Free(x, l)
    BY <1>b, <2>1, LoadRises DEF Free
  <2>3. ReleasePending(x) => ReleasePending(x)'
    BY <1>a, <2>1 DEF ReleasePending
  <2> QED BY <1>a, <1>d, <2>1, <2>2, <2>3
<1>7. ASSUME NEW d \in Dispatchers, Finish(d) PROVE Goal
  <2>1. /\ pc[d] \in {"running", "detached"} /\ pc' = [pc EXCEPT ![d] = "released"]
        /\ UNCHANGED <<deques, want, held>>
        /\ \/ UNCHANGED workers
           \/ /\ held[d] \in Registered
              /\ workers' = [workers EXCEPT ![held[d]].workload = @ - 1]
    BY <1>7 DEF Finish, balancer, Typed, TypeOK
  <2>2. x # held[d]
    BY <1>a, <1>b, <2>1 DEF ReleasePending
  <2>3. Free(x, l)
    <3>1. CASE UNCHANGED workers
      BY <1>b, <3>1 DEF Free, Supports, Registered
    <3>2. CASE held[d] \in Registered /\ workers' = [workers EXCEPT ![held[d]].workload = @ - 1]
      <4>1. /\ Registered' = Registered
            /\ \A y \in Registered : y # held[d] => workers'[y] = workers[y]
        BY <3>2, FieldFrame
      <4> QED BY <1>b, <2>2, <4>1 DEF Free, Supports
    <3> QED BY <2>1, <3>1, <3>2
  <2>4. ReleasePending(x) => ReleasePending(x)'
    BY <1>a, <2>1 DEF ReleasePending
  <2> QED BY <1>a, <1>d, <2>1, <2>3, <2>4
<1>8. ASSUME NEW d \in Dispatchers, MarkAvailable(d) PROVE Goal
  <2> DEFINE w == held[d]
             woken(ls) == [CallersAfter(None, ls) EXCEPT ![d] = "idle"]
  <2>1. /\ pc[d] = "released" /\ UNCHANGED <<workers, want>>
        /\ held' = [held EXCEPT ![d] = None]
    BY <1>8 DEF MarkAvailable
  <2>2. Free(x, l)
    BY <1>b, <2>1 DEF Free, Supports, Registered
  <2>3. ASSUME NEW ls, NEW c \in Dispatchers
        PROVE  /\ woken(ls)[c] = "waiting" => pc[c] = "waiting" /\ want[c] \notin ls
               /\ c # d => (woken(ls)[c] = "released" <=> pc[c] = "released")
    BY CallersAfterKeeps DEF CallersAfter
  <2>4. ASSUME NEW ls, pc' = woken(ls), x # w
        PROVE  /\ ~ReleasePending(x)
               /\ \A c \in Dispatchers : pc'[c] = "waiting" => pc[c] = "waiting"
    BY <1>a, <1>b, <2>1, <2>3, <2>4 DEF ReleasePending
  <2>5. CASE ~HasRoom(w) /\ pc' = woken({}) /\ UNCHANGED balancer
    <3>1. x # w
      BY <2>2, <2>5 DEF Free, Supports, HasRoom
    <3> QED BY <1>c, <2>1, <2>2, <2>4, <2>5, <3>1 DEF balancer
  <2>6. CASE /\ HasRoom(w) /\ pc' = woken(workers[w].langs)
             /\ deques' = RegisterDeques(deques, w, {}, workers[w].langs)
    <3> DEFINE ls == workers[w].langs
    <3>1. w \in Workers /\ pc' = woken(ls) /\ deques' = RegisterDeques(deques, w, {}, ls)
      BY <2>6 DEF HasRoom, Typed, TypeOK
    <3>2. x = w => l \in ls
      BY <2>2 DEF Free, Supports
    <3> HIDE DEF ls, w
    <3>3. SlotsIn(deques', l) = IF l \in ls THEN SlotsIn(deques, l) \cup {w}
                                ELSE SlotsIn(deques, l)
      BY <1>e, <3>1, RegisterSlots
    <3>4. CASE x = w
      BY <2>1, <2>3, <3>1, <3>2, <3>3, <3>4
    <3>5. CASE x # w
      BY <1>c, <2>1, <2>2, <2>4, <3>1, <3>3, <3>5
    <3> QED BY <3>4, <3>5
  <2> QED BY <1>8, <2>5, <2>6 DEF MarkAvailable
<1>9. ASSUME NEW d \in Dispatchers, \/ \E m \in Languages : Request(d, m)
                                    \/ GiveUp(d) \/ Decline(d)
      PROVE  Goal
  <2>1. /\ UNCHANGED <<workers, deques>>
        /\ \A c \in Dispatchers : /\ pc'[c] = "waiting" => pc[c] = "waiting" /\ want'[c] = want[c]
                                  /\ pc[c] = "released" => pc'[c] = "released" /\ held'[c] = held[c]
    BY <1>9 DEF Request, GiveUp, Decline, balancer, Typed, TypeOK
  <2>2. Free(x, l)
    BY <1>b, <2>1 DEF Free, Supports, Registered
  <2> QED BY <1>d, <2>1, <2>2 DEF ReleasePending
<1>10. ASSUME UNCHANGED <<workers, balancer, callers>> PROVE Goal
  BY <1>b, <1>d, <1>10 DEF balancer, callers, Free, Supports, Registered, ReleasePending
<1>11. CASE UNCHANGED vars
  BY <1>10, <1>11 DEF vars, balancer, callers
<1>12. ASSUME NEW w \in Workers, Environment(w) PROVE Goal
  BY <1>1, <1>2, <1>3, <1>12 DEF Environment, Unregister, Heartbeat, ForgetHeartbeat, Age
<1>13. CASE Monitor
  BY <1>2, <1>10, <1>13 DEF Monitor, MonitorWake, MonitorDrop
<1>14. ASSUME NEW d \in Dispatchers, Caller(d) PROVE Goal
  BY <1>4, <1>5, <1>6, <1>7, <1>8, <1>9, <1>14 DEF Caller
<1> QED BY <1>11, <1>12, <1>13, <1>14 DEF Next

\* A worker with room is never lost to its languages, and nobody sleeps beside
\* one: every worker that is free for a language has its slot there and no caller
\* waits for the language, but for the turns in which its release is due.
THEOREM NobodyIsForgotten == Spec => [](NoWorkerIsLost /\ NoLostWakeup)
<1>1. Init => Reachable
  BY DEF Init, Reachable, Free, Supports, Registered
<1>2. /\ Typed /\ TombstonesAreTheDeadSlots /\ Reachable /\ [Next]_vars => Reachable'
      /\ Typed /\ Reachable => NoWorkerIsLost /\ NoLostWakeup
  BY ReachableStep, ReachableMeaning
<1> QED BY <1>1, <1>2, TypesAndSlots, DeadSlots, PTL DEF Spec, Typed

-----------------------------------------------------------------------------
(* What get_worker hands out, and how much of it.                           *)

\* Only Serve gives a caller that is ready a worker.
LEMMA OnlyServeHandsOut ==
  ASSUME Typed, [Next]_vars, NEW d \in Dispatchers, pc[d] = "ready", held'[d] # held[d]
  PROVE  Serve(d)
<1>1. held \in [Dispatchers -> Workers \cup {None}]
  BY DEF Typed, TypeOK
<1>2. ASSUME NEW c \in Dispatchers, Caller(c), ~Serve(d) PROVE FALSE
  <2>1. CASE Serve(c)
    BY <1>1, <1>2, <2>1 DEF Serve
  <2>2. CASE Decline(c) \/ MarkAvailable(c)
    BY <1>1, <2>2 DEF Decline, MarkAvailable
  <2> QED BY <1>2, <2>1, <2>2 DEF Caller, Request, Block, GiveUp, Claim, Finish
<1>3. ASSUME NEW w \in Workers, Environment(w) PROVE held' = held
  BY <1>3 DEF Environment, Register, Reregister, Unregister, Drop, Heartbeat,
              ForgetHeartbeat, Age, SetHeartbeat, callers
<1>4. CASE Monitor
  BY <1>4 DEF Monitor, MonitorWake, MonitorDrop, Drop, callers
<1> QED BY <1>2, <1>3, <1>4 DEF Next, vars

\* The slot it takes is neither tombstoned, so it supports the language, nor full.
LEMMA HandoutStep ==
  ASSUME Typed, TombstonesAreTheDeadSlots, [Next]_vars, NEW d \in Dispatchers,
         pc[d] = "ready", held'[d] # held[d]
  PROVE  Free(held'[d], want[d])
<1> DEFINE l == want[d]
           q == deques[l]
<1>1. Serve(d) /\ held \in [Dispatchers -> Workers \cup {None}]
  BY OnlyServeHandsOut DEF Typed, TypeOK
<1>2. l \in Languages /\ q \in Seq(Workers)
  BY <1>1 DEF Serve, Typed, TypeOK
<1>3. PICK i \in 1..Len(q) : Live(q[i], l) /\ held' = [held EXCEPT ![d] = q[i]]
  BY <1>1 DEF Serve
<1>4. q[i] \in Slots(l) /\ held'[d] = q[i]
  BY <1>1, <1>2, <1>3 DEF Slots, ToSet
<1>5. tombs[l] = {w \in Slots(l) : ~Supports(w, l)}
  BY <1>2 DEF TombstonesAreTheDeadSlots
<1> QED BY <1>3, <1>4, <1>5 DEF Live, HasRoom, Free

\* Whoever is given a worker is given one that is registered, supports the
\* language asked for and has room.
THEOREM SoundHandouts == Spec => HandoutsAreSound
<1>1. Typed /\ TombstonesAreTheDeadSlots /\ [Next]_vars =>
        [\A d \in Dispatchers :
           pc[d] = "ready" /\ held'[d] # held[d] => Free(held'[d], want[d])]_vars
  BY HandoutStep
<1> QED BY <1>1, TypesAndSlots, DeadSlots, PTL DEF Spec, Typed, HandoutsAreSound

\* The inductive form of CapacityIsRespected: a caller that claims at once is
\* never between the return of get_worker and its claim.
Within(e) == e.workload > 0 => e.workload <= e.capacity
Claimed ==
  ClaimAtOnce => /\ \A d \in Dispatchers : pc[d] # "offered"
                 /\ \A w \in Registered : Within(workers[w])

LEMMA ClaimedStep ==
  ASSUME Typed, Claimed, [Next]_vars
  PROVE  Claimed'
<1> SUFFICES ASSUME ClaimAtOnce
             PROVE  /\ \A d \in Dispatchers : pc'[d] # "offered"
                    /\ \A w \in Registered' : Within(workers'[w])
  BY DEF Claimed
<1> DEFINE Goal == /\ \A d \in Dispatchers : pc'[d] # "offered"
                   /\ \A w \in Registered' : Within(workers'[w])
<1>a. /\ pc \in [Dispatchers -> Places] /\ \A d \in Dispatchers : pc[d] # "offered"
      /\ workers \in [Registered -> Entities]
      /\ \A w \in Registered : workers[w] \in Entities /\ Within(workers[w])
  BY DEF Typed, TypeOK, Claimed
<1>b. ASSUME NEW w, NEW ls, NEW d \in Dispatchers PROVE CallersAfter(w, ls)[d] # "offered"
  BY <1>a DEF CallersAfter
<1>1. ASSUME NEW w \in Workers, NEW p \in Profiles, Register(w, p) \/ Reregister(w, p) PROVE Goal
  <2>1. workers' = Put(workers, w, NewEntity(p)) /\ pc' = CallersAfter(w, WakesFor(NewEntity(p)))
    BY <1>1 DEF Register, Reregister
  <2>2. Within(NewEntity(p))
    BY NewEntityType DEF Within
  <2> QED BY <1>a, <1>b, <2>1, <2>2 DEF Put, Registered
<1>2. ASSUME NEW w \in Workers, Drop(w) PROVE Goal
  <2>1. workers' = Restrict(workers, Registered \ {w}) /\ pc' = CallersAfter(w, {})
    BY <1>2 DEF Drop
  <2> QED BY <1>a, <1>b, <2>1 DEF Restrict, Registered
<1>3. ASSUME NEW w \in Workers, NEW a, SetHeartbeat(w, a) PROVE Goal
  <2>1. w \in Registered /\ workers' = [workers EXCEPT ![w].heartbeat = a] /\ pc' = pc
    BY <1>3 DEF SetHeartbeat, callers
  <2>2. \A y \in DOMAIN workers' : y \in Registered /\ workers'[y].capacity = workers[y].capacity
                                   /\ workers'[y].workload = workers[y].workload
    BY <1>a, <2>1 DEF Registered, Entities
  <2> QED BY <1>a, <2>1, <2>2 DEF Registered, Within
<1>4. ASSUME NEW d \in Dispatchers, Serve(d) PROVE Goal
  <2> DEFINE q == deques[want[d]]
  <2>1. PICK i \in 1..Len(q) : /\ Live(q[i], want[d])
                               /\ workers' = [workers EXCEPT ![q[i]].workload = @ + 1]
                               /\ pc' = [pc EXCEPT ![d] = "running"]
    BY <1>4 DEF Serve
  <2> DEFINE w == q[i]
  <2>2. w \in Registered /\ workers[w].workload < workers[w].capacity
    BY <2>1 DEF Live, HasRoom, IsAvailable
  <2>3. workers' = [workers EXCEPT ![w].workload = @ + 1]
    BY <2>1
  <2> HIDE DEF w
  <2>4. workers[w].workload \in Int /\ workers[w].capacity \in Int
    BY <1>a, <2>2 DEF Entities
  <2>5. /\ workers'[w].workload = workers[w].workload + 1
        /\ Registered' = Registered
        /\ \A y \in Registered : workers'[y].capacity = workers[y].capacity
        /\ \A y \in Registered : y # w => workers'[y] = workers[y]
    BY <1>a, <2>2, <2>3, FieldFrame DEF Registered, Entities
  <2>6. Within(workers'[w])
    BY <2>2, <2>4, <2>5 DEF Within
  <2>7. \A y \in Registered' : Within(workers'[y])
    BY <1>a, <2>5, <2>6
  <2> QED BY <1>a, <2>1, <2>7
<1>5. ASSUME NEW d \in Dispatchers, Finish(d) PROVE Goal
  <2>1. pc' = [pc EXCEPT ![d] = "released"]
    BY <1>5 DEF Finish
  <2>2. CASE pc[d] = "running"
    <3> DEFINE w == held[d]
    <3>1. w \in Registered /\ workers' = [workers EXCEPT ![w].workload = @ - 1]
      BY <1>5, <2>2 DEF Finish, Typed, TypeOK
    <3> HIDE DEF w
    <3>2. workers[w].workload \in Int /\ workers[w].capacity \in Int
      BY <1>a, <3>1 DEF Entities
    <3>3. /\ workers'[w].workload = workers[w].workload - 1
          /\ Registered' = Registered
          /\ \A y \in Registered : workers'[y].capacity = workers[y].capacity
          /\ \A y \in Registered : y # w => workers'[y] = workers[y]
      BY <1>a, <3>1, FieldFrame DEF Registered, Entities
    <3>4. Within(workers'[w])
      BY <1>a, <3>1, <3>2, <3>3 DEF Within
    <3>5. \A y \in Registered' : Within(workers'[y])
      BY <1>a, <3>3, <3>4
    <3> QED BY <1>a, <2>1, <3>5
  <2>3. CASE pc[d] # "running"
    BY <1>a, <1>5, <2>1, <2>3 DEF Finish, Registered
  <2> QED BY <2>2, <2>3
<1>6. ASSUME NEW d \in Dispatchers, MarkAvailable(d) PROVE Goal
  BY <1>a, <1>b, <1>6 DEF MarkAvailable, Registered, CallersAfter
<1>7. ASSUME NEW d \in Dispatchers, \/ \E l \in Languages : Request(d, l)
                                    \/ Block(d) \/ GiveUp(d) \/ Claim(d) \/ Decline(d)
      PROVE  Goal
  BY <1>a, <1>7 DEF Request, Block, GiveUp, Claim, Decline, Registered
<1>8. CASE MonitorWake \/ UNCHANGED vars
  BY <1>a, <1>8 DEF MonitorWake, callers, vars, Registered
<1>9. ASSUME NEW w \in Workers, Environment(w) PROVE Goal
  BY <1>1, <1>2, <1>3, <1>9 DEF Environment, Unregister, Heartbeat, ForgetHeartbeat, Age
<1>10. CASE Monitor
  BY <1>2, <1>8, <1>10 DEF Monitor, MonitorDrop
<1>11. ASSUME NEW d \in Dispatchers, Caller(d) PROVE Goal
  BY <1>4, <1>5, <1>6, <1>7, <1>11 DEF Caller
<1> QED BY <1>8, <1>9, <1>10, <1>11 DEF Next

\* Callers that add their workload before they yield never push a worker beyond
\* the capacity it registered with.
THEOREM CapacityRespected == Spec => []CapacityIsRespected
<1>1. Init => Claimed
  BY DEF Init, Claimed, Registered
<1>2. Typed /\ Claimed /\ [Next]_vars => Claimed'
  BY ClaimedStep
<1>3. Claimed => CapacityIsRespected
  BY DEF Claimed, Within, CapacityIsRespected
<1> QED BY <1>1, <1>2, <1>3, TypesAndSlots, PTL DEF Spec, Typed


-----------------------------------------------------------------------------
(* The full workers that get_worker notes in passing.                       *)

\* A registered worker that has no slot in one of its languages.
Parked(w) == \E l \in Languages : Supports(w, l) /\ w \notin SlotsIn(deques, l)
FullAreParked == \A w : w \in full <=> Parked(w)

LEMMA ParkedMeaning ==
  ASSUME Typed
  PROVE  FullSetIsTheParkedWorkers <=> FullAreParked
<1>1. \A w \in Registered : workers[w].langs \subseteq Languages
  BY DEF Typed, TypeOK, Entities
<1>2. ASSUME NEW w
      PROVE  Parked(w) <=> w \in Registered /\ \E l \in workers[w].langs : w \notin Slots(l)
  BY <1>1 DEF Parked, Supports, Slots, SlotsIn
<1>3. full \subseteq Workers /\ Registered \subseteq Workers
  BY DEF Typed, TypeOK
<1> QED BY <1>2, <1>3 DEF FullSetIsTheParkedWorkers, FullAreParked

LEMMA ParkedStep ==
  ASSUME Typed, TombstonesAreTheDeadSlots, FullAreParked, [Next]_vars
  PROVE  FullAreParked'
<1>a. Rings(deques) /\ deques \in [Languages -> Seq(Workers)]
  BY DEF Typed, SlotsAreUnique, Rings, TypeOK
<1>b. \A l \in Languages : \A x : x \in tombs[l] <=> x \in SlotsIn(deques, l) /\ ~Supports(x, l)
  BY <1>a DEF TombstonesAreTheDeadSlots, Slots, SlotsIn
<1> SUFFICES ASSUME NEW x PROVE x \in full' <=> Parked(x)'
  BY DEF FullAreParked
<1> DEFINE Goal == x \in full' <=> Parked(x)'
<1>c. x \in full <=> \E l \in Languages : Supports(x, l) /\ x \notin SlotsIn(deques, l)
  BY DEF FullAreParked, Parked
<1>d. Parked(x)' <=> \E l \in Languages : Supports(x, l)' /\ x \notin SlotsIn(deques', l)
  BY DEF Parked, SlotsIn
<1>f. ASSUME Registered' = Registered, \A w \in Registered : workers'[w].langs = workers[w].langs,
             deques' = deques, full' = full
      PROVE  Goal
  BY <1>c, <1>d, <1>f DEF Supports
<1>1. ASSUME NEW w \in Workers, NEW p \in Profiles, Register(w, p) PROVE Goal
  <2> DEFINE old == LanguagesOf(w)
             new == p.langs
  <2>1. /\ workers' = Put(workers, w, NewEntity(p)) /\ NewEntity(p).langs = new
        /\ deques' = RegisterDeques(deques, w, old, new)
        /\ full' = full \ {w}
    BY <1>1, NewEntityType DEF Register
  <2>2. \A l : Supports(x, l)' <=> IF x = w THEN l \in new ELSE Supports(x, l)
    BY <2>1 DEF Supports, Put, Registered
  <2> HIDE DEF old, new
  <2>3. \A l \in Languages : x \in SlotsIn(deques', l) <=>
          IF x = w /\ l \in new THEN TRUE
          ELSE x \in SlotsIn(deques, l) /\ ~(x = w /\ l \in old)
    BY <1>a, <2>1, RegisterSlots
  <2> QED BY <1>c, <1>d, <2>1, <2>2, <2>3
<1>2. ASSUME NEW w \in Workers, NEW p \in Profiles, Reregister(w, p) PROVE Goal
  <2> DEFINE old == LanguagesOf(w)
             new == p.langs
             ds == UnregisterDeques(deques, w, old)
  <2>1. /\ workers' = Put(workers, w, NewEntity(p)) /\ NewEntity(p).langs = new
        /\ deques' = RegisterDeques(ds, w, {}, new)
        /\ full' = full \ {w}
    BY <1>2, NewEntityType DEF Reregister
  <2>2. \A l : Supports(x, l)' <=> IF x = w THEN l \in new ELSE Supports(x, l)
    BY <2>1 DEF Supports, Put, Registered
  <2>3. /\ ds \in [Languages -> Seq(Workers)] /\ Rings(ds)
        /\ \A l \in Languages : x # w => (x \in SlotsIn(ds, l) <=> x \in SlotsIn(deques, l))
    <3>1. ds \in [Languages -> Seq(Workers)] /\ Rings(ds)
      BY <1>a, UnregisterSlotsType
    <3>2. ASSUME NEW l \in Languages
          PROVE  x # w => (x \in SlotsIn(ds, l) <=> x \in SlotsIn(deques, l))
      <4>1. \/ SlotsIn(ds, l) = SlotsIn(deques, l) \ {w}
            \/ SlotsIn(ds, l) = SlotsIn(deques, l)
        BY <1>a, UnregisterSlots
      <4> QED BY <4>1
    <3> QED BY <3>1, <3>2
  <2> HIDE DEF old, new, ds
  <2>4. \A l \in Languages :
          SlotsIn(deques', l) = IF l \in new THEN SlotsIn(ds, l) \cup {w} ELSE SlotsIn(ds, l)
    BY <2>1, <2>3, RegisterSlots
  <2> QED BY <1>c, <1>d, <2>1, <2>2, <2>3, <2>4
<1>3. ASSUME NEW w \in Workers, Drop(w) PROVE Goal
  <2> DEFINE old == workers[w].langs
  <2>1. /\ workers' = Restrict(workers, Registered \ {w})
        /\ deques' = UnregisterDeques(deques, w, old)
        /\ full' = full \ {w}
    BY <1>3 DEF Drop
  <2>2. \A l : Supports(x, l)' <=> x # w /\ Supports(x, l)
    BY <2>1 DEF Supports, Restrict, Registered
  <2>3. ASSUME NEW l \in Languages
        PROVE  x # w => (x \in SlotsIn(deques', l) <=> x \in SlotsIn(deques, l))
    <3>1. \/ SlotsIn(deques', l) = SlotsIn(deques, l) \ {w}
          \/ SlotsIn(deques', l) = SlotsIn(deques, l)
      BY <1>a, <2>1, UnregisterSlots
    <3> QED BY <3>1
  <2> HIDE DEF old
  <2> QED BY <1>c, <1>d, <2>1, <2>2, <2>3
<1>4. ASSUME NEW w \in Workers, NEW a, SetHeartbeat(w, a) PROVE Goal
  BY <1>4, <1>f, FieldFrame DEF SetHeartbeat, balancer
<1>5. ASSUME NEW d \in Dispatchers, Serve(d) PROVE Goal
  <2> DEFINE m == want[d]
             q == deques[m]
  <2>1. m \in Languages /\ q \in Seq(Workers) /\ IsInjective(q)
    BY <1>5, <1>a DEF Serve, Typed, TypeOK, Rings
  <2>2. PICK i \in 1..Len(q) :
          /\ Live(q[i], m)
          /\ deques' = [deques EXCEPT ![m] = RotateTo(q, i)]
          /\ ParkFull(m, i - 1)
          /\ \/ workers' = [workers EXCEPT ![q[i]].workload = @ + 1]
             \/ UNCHANGED workers
    BY <1>5 DEF Serve
  <2>3. /\ Registered' = Registered
        /\ \A w \in Registered : workers'[w].langs = workers[w].langs
    BY <2>2, FieldFrame DEF Live, HasRoom, Registered
  <2>4. \A l : Supports(x, l)' <=> Supports(x, l)
    BY <2>3 DEF Supports
  <2>5. x \in SlotsIn(deques', m) <=> x \in SlotsIn(deques, m) /\ x \notin Popped(m, i - 1)
    BY SMTT(20), <1>a, <2>1, <2>2, RotateToRing DEF SlotsIn, Popped
  <2>6. \A l \in Languages \ {m} : deques'[l] = deques[l]
    BY <1>a, <2>1, <2>2
  <2>7. Popped(m, i - 1) \subseteq SlotsIn(deques, m)
    BY <2>1 DEF Popped, SlotsIn, ToSet
  <2>8. x \in full' <=> x \in full \/ (x \in Popped(m, i - 1) /\ x \notin tombs[m] /\ x \in Registered)
    BY <2>2 DEF ParkFull
  <2>9. x \in full' <=> x \in full \/ (x \in Popped(m, i - 1) /\ Supports(x, m))
    BY <1>b, <2>1, <2>7, <2>8 DEF Supports
  <2> QED BY <1>c, <1>d, <2>1, <2>4, <2>5, <2>6, <2>9 DEF SlotsIn
<1>6. ASSUME NEW d \in Dispatchers, Block(d) PROVE Goal
  <2> DEFINE m == want[d]
             q == deques[m]
  <2>1. m \in Languages /\ q \in Seq(Workers)
    BY <1>6, <1>a DEF Block, Typed, TypeOK
  <2>2. /\ deques' = [deques EXCEPT ![m] = <<>>]
        /\ ParkFull(m, Len(q))
        /\ UNCHANGED workers
    BY <1>6 DEF Block
  <2>3. \A l : Supports(x, l)' <=> Supports(x, l)
    BY <2>2 DEF Supports, Registered
  <2>4. x \notin SlotsIn(deques', m)
    BY <1>a, <2>1, <2>2 DEF ToSet, SlotsIn
  <2>5. \A l \in Languages \ {m} : deques'[l] = deques[l]
    BY <1>a, <2>1, <2>2
  <2>6. Popped(m, Len(q)) = SlotsIn(deques, m)
    BY <2>1 DEF Popped, SlotsIn, ToSet
  <2>7. x \in full' <=> x \in full \/ (x \in SlotsIn(deques, m) /\ x \notin tombs[m] /\ x \in Registered)
    BY <2>2, <2>6 DEF ParkFull
  <2>8. x \in full' <=> x \in full \/ (x \in SlotsIn(deques, m) /\ Supports(x, m))
    BY <1>b, <2>1, <2>7 DEF Supports
  <2> QED BY <1>c, <1>d, <2>1, <2>3, <2>4, <2>5, <2>8 DEF SlotsIn
<1>7. ASSUME NEW d \in Dispatchers, Claim(d) \/ Finish(d) PROVE Goal
  <2>1. deques' = deques /\ full' = full
    BY <1>7 DEF Claim, Finish, balancer
  <2>2. CASE pc[d] \in {"offered", "running"}
    <3>1. held[d] \in Registered
      BY <2>2 DEF Typed, TypeOK
    <3>2. \/ workers' = [workers EXCEPT ![held[d]].workload = workers[held[d]].workload + 1]
          \/ workers' = [workers EXCEPT ![held[d]].workload = workers[held[d]].workload - 1]
      BY <1>7, <2>2 DEF Claim, Finish
    <3> QED BY <2>1, <3>1, <3>2, <1>f, FieldFrame
  <2>3. CASE pc[d] \notin {"offered", "running"}
    <3>1. UNCHANGED workers
      BY <1>7, <2>3 DEF Claim, Finish
    <3> QED BY <2>1, <3>1, <1>f DEF Registered
  <2> QED BY <2>2, <2>3
<1>8. ASSUME NEW d \in Dispatchers, MarkAvailable(d) PROVE Goal
  <2> DEFINE w == held[d]
  <2>1. workers' = workers /\ \A l : Supports(x, l)' <=> Supports(x, l)
    BY <1>8 DEF MarkAvailable, Supports, Registered
  <2>2. CASE UNCHANGED balancer
    BY <1>f, <2>1, <2>2 DEF balancer, Registered
  <2>3. CASE /\ w \in Registered
             /\ deques' = RegisterDeques(deques, w, {}, workers[w].langs)
             /\ full' = full \ {w}
    <3> DEFINE ls == workers[w].langs
    <3>1. w \in Workers /\ \A l : Supports(w, l) <=> l \in ls
      BY <2>3 DEF Typed, TypeOK, Supports
    <3>2. deques' = RegisterDeques(deques, w, {}, ls) /\ full' = full \ {w}
      BY <2>3
    <3> HIDE DEF ls, w
    <3>3. \A l \in Languages :
            SlotsIn(deques', l) = IF l \in ls THEN SlotsIn(deques, l) \cup {w} ELSE SlotsIn(deques, l)
      BY <1>a, <3>1, <3>2, RegisterSlots
    <3> QED BY <1>c, <1>d, <2>1, <3>1, <3>2, <3>3
  <2> QED BY <1>8, <2>2, <2>3 DEF MarkAvailable, HasRoom
<1>9. ASSUME UNCHANGED <<workers, balancer>> PROVE Goal
  BY <1>9, <1>f DEF balancer, Registered
<1>10. CASE UNCHANGED vars
  BY <1>9, <1>10 DEF vars, balancer
<1>11. ASSUME NEW w \in Workers, Environment(w) PROVE Goal
  BY <1>1, <1>2, <1>3, <1>4, <1>11
     DEF Environment, Unregister, Heartbeat, ForgetHeartbeat, Age
<1>12. CASE Monitor
  BY <1>3, <1>9, <1>12 DEF Monitor, MonitorWake, MonitorDrop
<1>13. ASSUME NEW d \in Dispatchers, Caller(d) PROVE Goal
  BY <1>5, <1>6, <1>7, <1>8, <1>9, <1>13 DEF Caller, Request, GiveUp, Decline
<1> QED BY <1>10, <1>11, <1>12, <1>13 DEF Next

\* full_worker_id_set never keeps a worker that left or has all its slots back, and
\* never misses one whose slot get_worker popped.
THEOREM FullSetIsExact == Spec => []FullSetIsTheParkedWorkers
<1>1. Init => FullAreParked
  BY DEF Init, FullAreParked, Parked, Supports, Registered
<1>2. Typed /\ TombstonesAreTheDeadSlots /\ FullAreParked /\ [Next]_vars => FullAreParked'
  BY ParkedStep
<1>3. Typed /\ FullAreParked => FullSetIsTheParkedWorkers
  BY ParkedMeaning
<1> QED BY <1>1, <1>2, <1>3, TypesAndSlots, DeadSlots, PTL DEF Spec, Typed


-----------------------------------------------------------------------------
(* The workload of a worker counts the callers that run on it.              *)

Runners(w) == {d \in Dispatchers : held[d] = w /\ pc[d] = "running"}

\* However many callers there are, only finitely many run on one worker: without that
\* the number of them would mean nothing.
Counted ==
  \A w \in Registered :
    IsFiniteSet(Runners(w)) /\ workers[w].workload = Cardinality(Runners(w))

\* Steps in which nobody starts or stops to run on a worker that stays registered.
LEMMA CountedFrame ==
  ASSUME Counted, Registered' \subseteq Registered,
         \A x \in Registered' : /\ workers'[x].workload = workers[x].workload
                                /\ Runners(x)' = Runners(x)
  PROVE  Counted'
BY DEF Counted

\* Steps in which one caller does, and the workload of its worker follows.
LEMMA CountedChange ==
  ASSUME Typed, Counted, NEW w \in Registered, NEW d,
         \/ /\ workers' = [workers EXCEPT ![w].workload = @ + 1]
            /\ d \notin Runners(w) /\ Runners(w)' = Runners(w) \cup {d}
         \/ /\ workers' = [workers EXCEPT ![w].workload = @ - 1]
            /\ d \in Runners(w) /\ Runners(w)' = Runners(w) \ {d},
         \A x \in Registered \ {w} : Runners(x)' = Runners(x)
  PROVE  Counted'
<1>1. /\ Registered' = Registered
      /\ \A x \in Registered \ {w} : workers'[x] = workers[x]
  BY FieldFrame
<1>2. workers[w] \in Entities /\ workers \in [Registered -> Entities]
  BY DEF Typed, TypeOK
<1>3. IsFiniteSet(Runners(w)) /\ workers[w].workload = Cardinality(Runners(w))
  BY DEF Counted
<1>4. IsFiniteSet(Runners(w)') /\ workers'[w].workload = Cardinality(Runners(w)')
  <2>1. CASE /\ workers' = [workers EXCEPT ![w].workload = @ + 1]
             /\ d \notin Runners(w) /\ Runners(w)' = Runners(w) \cup {d}
    <3>1. workers'[w].workload = workers[w].workload + 1
      BY <1>2, <2>1 DEF Registered, Entities
    <3>2. /\ IsFiniteSet(Runners(w) \cup {d})
          /\ Cardinality(Runners(w) \cup {d}) = Cardinality(Runners(w)) + 1
      BY <1>3, <2>1, FS_AddElement
    <3> QED BY <1>3, <2>1, <3>1, <3>2
  <2>2. CASE /\ workers' = [workers EXCEPT ![w].workload = @ - 1]
             /\ d \in Runners(w) /\ Runners(w)' = Runners(w) \ {d}
    <3>1. workers'[w].workload = workers[w].workload - 1
      BY <1>2, <2>2 DEF Registered, Entities
    <3>2. /\ IsFiniteSet(Runners(w) \ {d})
          /\ Cardinality(Runners(w) \ {d}) = Cardinality(Runners(w)) - 1
      BY <1>3, <2>2, FS_RemoveElement
    <3> QED BY <1>3, <2>2, <3>1, <3>2
  <2> QED BY <2>1, <2>2
<1> QED BY <1>1, <1>4 DEF Counted

LEMMA CountedStep ==
  ASSUME Typed, Counted, [Next]_vars
  PROVE  Counted'
<1>a. /\ pc \in [Dispatchers -> Places] /\ held \in [Dispatchers -> Workers \cup {None}]
      /\ workers \in [Registered -> Entities]
  BY DEF Typed, TypeOK
\* What a worker's registration or removal does to the callers of the others.
<1>b. ASSUME NEW w, NEW ls, pc' = CallersAfter(w, ls), held' = held, NEW x
      PROVE  Runners(x)' = IF x = w THEN {} ELSE Runners(x)
  BY <1>a, <1>b DEF Runners, CallersAfter
<1>1. ASSUME NEW w \in Workers, NEW p \in Profiles, Register(w, p) \/ Reregister(w, p) PROVE Counted'
  <2>1. /\ workers' = Put(workers, w, NewEntity(p)) /\ NewEntity(p).workload = 0
        /\ pc' = CallersAfter(w, WakesFor(NewEntity(p))) /\ held' = held
    BY <1>1, NewEntityType DEF Register, Reregister
  <2>2. /\ Registered' = Registered \cup {w} /\ workers'[w].workload = 0
        /\ \A x \in Registered' \ {w} : workers'[x] = workers[x]
    BY <2>1 DEF Put, Registered
  <2>3. \A x : Runners(x)' = IF x = w THEN {} ELSE Runners(x)
    BY <1>b, <2>1
  <2> QED BY <2>2, <2>3, FS_EmptySet DEF Counted
<1>2. ASSUME NEW w \in Workers, Drop(w) PROVE Counted'
  <2>1. workers' = Restrict(workers, Registered \ {w}) /\ pc' = CallersAfter(w, {}) /\ held' = held
    BY <1>2 DEF Drop
  <2>2. \A x : Runners(x)' = IF x = w THEN {} ELSE Runners(x)
    BY <1>b, <2>1
  <2>3. Registered' = Registered \ {w} /\ \A x \in Registered' : workers'[x] = workers[x]
    BY <2>1 DEF Restrict, Registered
  <2> QED BY <2>2, <2>3, CountedFrame
<1>3. ASSUME NEW w \in Workers, NEW a, SetHeartbeat(w, a) PROVE Counted'
  <2>1. w \in Registered /\ workers' = [workers EXCEPT ![w].heartbeat = a] /\ pc' = pc /\ held' = held
    BY <1>3 DEF SetHeartbeat, callers
  <2>2. Registered' = Registered /\ \A x \in Registered : workers'[x].workload = workers[x].workload
    BY <1>a, <2>1 DEF Registered, Entities
  <2>3. \A x : Runners(x)' = Runners(x)
    BY <2>1 DEF Runners
  <2> QED BY <2>2, <2>3, CountedFrame
<1>4. ASSUME NEW d \in Dispatchers, Serve(d) PROVE Counted'
  <2>1. PICK i \in 1..Len(deques[want[d]]) :
          /\ Live(deques[want[d]][i], want[d])
          /\ held' = [held EXCEPT ![d] = deques[want[d]][i]]
          /\ \/ /\ workers' = [workers EXCEPT ![deques[want[d]][i]].workload = @ + 1]
                /\ pc' = [pc EXCEPT ![d] = "running"]
             \/ /\ UNCHANGED workers
                /\ pc' = [pc EXCEPT ![d] = "offered"]
    BY <1>4 DEF Serve
  <2>2. PICK w : w = deques[want[d]][i]
    OBVIOUS
  <2>3. w \in Registered /\ held' = [held EXCEPT ![d] = w] /\ pc[d] = "ready"
    BY <1>4, <2>1, <2>2 DEF Live, HasRoom, Serve
  <2>4. CASE /\ workers' = [workers EXCEPT ![w].workload = @ + 1]
             /\ pc' = [pc EXCEPT ![d] = "running"]
    <3>1. d \notin Runners(w) /\ Runners(w)' = Runners(w) \cup {d}
      BY <1>a, <2>3, <2>4 DEF Runners
    <3>2. \A x \in Registered \ {w} : Runners(x)' = Runners(x)
      BY <1>a, <2>3, <2>4 DEF Runners
    <3> QED BY <2>3, <2>4, <3>1, <3>2, CountedChange
  <2>5. CASE UNCHANGED workers /\ pc' = [pc EXCEPT ![d] = "offered"]
    <3>1. \A x : Runners(x)' = Runners(x)
      BY <1>a, <2>3, <2>5 DEF Runners
    <3> QED BY <2>5, <3>1, CountedFrame DEF Registered
  <2> QED BY <2>1, <2>2, <2>4, <2>5
<1>5. ASSUME NEW d \in Dispatchers, Claim(d) PROVE Counted'
  <2>1. PICK w : w = held[d]
    OBVIOUS
  <2>2. /\ w \in Registered /\ workers' = [workers EXCEPT ![w].workload = @ + 1]
        /\ pc[d] = "offered" /\ pc' = [pc EXCEPT ![d] = "running"] /\ held' = held
    BY <1>5, <2>1 DEF Claim, Typed, TypeOK
  <2>3. d \notin Runners(w) /\ Runners(w)' = Runners(w) \cup {d}
    BY <1>a, <2>1, <2>2 DEF Runners
  <2>4. \A x \in Registered \ {w} : Runners(x)' = Runners(x)
    BY <1>a, <2>1, <2>2 DEF Runners
  <2> QED BY <2>2, <2>3, <2>4, CountedChange
<1>6. ASSUME NEW d \in Dispatchers, Finish(d) PROVE Counted'
  <2>1. PICK w : w = held[d]
    OBVIOUS
  <2>2. pc' = [pc EXCEPT ![d] = "released"] /\ held' = held
    BY <1>6 DEF Finish
  <2>3. CASE pc[d] = "running"
    <3>1. w \in Registered /\ workers' = [workers EXCEPT ![w].workload = @ - 1]
      BY <1>6, <2>1, <2>3 DEF Finish, Typed, TypeOK
    <3>2. d \in Runners(w) /\ Runners(w)' = Runners(w) \ {d}
      BY <1>a, <2>1, <2>2, <2>3 DEF Runners
    <3>3. \A x \in Registered \ {w} : Runners(x)' = Runners(x)
      BY <1>a, <2>1, <2>2 DEF Runners
    <3> QED BY <3>1, <3>2, <3>3, CountedChange
  <2>4. CASE pc[d] = "detached"
    <3>1. UNCHANGED workers
      BY <1>6, <2>4 DEF Finish
    <3>2. \A x : Runners(x)' = Runners(x)
      BY <1>a, <2>2, <2>4 DEF Runners
    <3> QED BY <3>1, <3>2, CountedFrame DEF Registered
  <2> QED BY <1>6, <2>3, <2>4 DEF Finish
<1>7. ASSUME NEW d \in Dispatchers, MarkAvailable(d) PROVE Counted'
  <2>1. /\ UNCHANGED workers /\ pc[d] = "released" /\ held' = [held EXCEPT ![d] = None]
        /\ \E ls : pc' = [CallersAfter(None, ls) EXCEPT ![d] = "idle"]
    BY <1>7 DEF MarkAvailable
  <2>2. \A x \in Workers : Runners(x)' = Runners(x)
    BY <1>a, <2>1, NoneAssumption DEF Runners, CallersAfter
  <2>3. Registered' \subseteq Workers
    BY <2>1 DEF Typed, TypeOK, Registered
  <2> QED BY <2>1, <2>2, <2>3, CountedFrame DEF Registered
<1>8. ASSUME NEW d \in Dispatchers, \/ \E l \in Languages : Request(d, l)
                                    \/ Block(d) \/ GiveUp(d) \/ Decline(d)
      PROVE  Counted'
  <2>1. UNCHANGED workers
    BY <1>8 DEF Request, Block, GiveUp, Decline
  <2>2. \A x : Runners(x)' = Runners(x)
    BY <1>a, <1>8 DEF Request, Block, GiveUp, Decline, Runners
  <2> QED BY <2>1, <2>2, CountedFrame DEF Registered
<1>9. CASE MonitorWake \/ UNCHANGED vars
  <2>1. UNCHANGED <<workers, pc, held>>
    BY <1>9 DEF MonitorWake, callers, vars
  <2> QED BY <2>1, CountedFrame DEF Registered, Runners
<1>10. ASSUME NEW w \in Workers, Environment(w) PROVE Counted'
  BY <1>1, <1>2, <1>3, <1>10 DEF Environment, Unregister, Heartbeat, ForgetHeartbeat, Age
<1>11. CASE Monitor
  BY <1>2, <1>9, <1>11 DEF Monitor, MonitorDrop
<1>12. ASSUME NEW d \in Dispatchers, Caller(d) PROVE Counted'
  BY <1>4, <1>5, <1>6, <1>7, <1>8, <1>12 DEF Caller
<1> QED BY <1>9, <1>10, <1>11, <1>12 DEF Next

\* current_workload never counts work on an entity that was replaced, nor misses a
\* caller at work, however claims, releases and registrations interleave.
THEOREM WorkloadIsExact == Spec => []WorkloadCountsCallers
<1>1. Init => Counted
  BY DEF Init, Counted, Registered
<1>2. Typed /\ Counted /\ [Next]_vars => Counted'
  BY CountedStep
<1>3. Counted => WorkloadCountsCallers
  <2>1. \A w : Runners(w) = {d \in Holding(w) : pc[d] = "running"}
    BY DEF Runners, Holding
  <2> QED BY <2>1 DEF Counted, WorkloadCountsCallers
<1> QED BY <1>1, <1>2, <1>3, TypesAndSlots, PTL DEF Spec, Typed

-----------------------------------------------------------------------------
(* The rotation: every step leaves the slot of a worker that stays free where *)
(* it is, or brings it forward, by one at least when another is handed out.   *)

\* x, in slot k of q, is in r, n slots further to the front at least.
Advances(q, r, x, k, n) == \E j \in 1..Len(r) : r[j] = x /\ j <= k - n

LEMMA RotateToPlace ==
  ASSUME NEW S, NEW q \in Seq(S), NEW i \in 1..Len(q), NEW k \in 1..Len(q), i < k
  PROVE  Advances(q, RotateTo(q, i), q[k], k, 1)
<1> DEFINE j == k - i
           r == RotateTo(q, i)
<1>1. j \in 1..Len(r) /\ r[j] = q[k] /\ j <= k - 1
  BY RotatePlace DEF RotateTo
<1> HIDE DEF j, r
<1>2. Advances(q, r, q[k], k, 1)
  BY <1>1 DEF Advances
<1> QED BY <1>2 DEF r

\* register() and mark_worker_as_available() move no slot back, but that of the
\* worker itself.
LEMMA RegisterPlace ==
  ASSUME NEW qs \in [Languages -> Seq(Workers)], Rings(qs),
         NEW w \in Workers, NEW old, NEW new, NEW l \in Languages,
         NEW k \in 1..Len(qs[l]), qs[l][k] = w => l \in new \/ l \notin old
  PROVE  Advances(qs[l], RegisterDeques(qs, w, old, new)[l], qs[l][k], k, 0)
<1> DEFINE rs == RegisterDeques(qs, w, old, new)
<1>1. qs[l] \in Seq(Workers) /\ IsInjective(qs[l])
  BY DEF Rings
<1>2. \/ rs[l] = qs[l]
      \/ rs[l] = Append(qs[l], w)
      \/ rs[l] = RemoveFirst(qs[l], w) /\ qs[l][k] # w
  BY DEF RegisterDeques
<1> HIDE DEF rs
<1>3. CASE rs[l] = qs[l]
  BY <1>1, <1>3 DEF Advances, rs
<1>4. CASE rs[l] = Append(qs[l], w)
  <2>1. k \in 1..Len(rs[l]) /\ rs[l][k] = qs[l][k] /\ k <= k - 0
    BY <1>1, <1>4, AppendPlace
  <2> QED BY <2>1 DEF Advances, rs
<1>5. CASE rs[l] = RemoveFirst(qs[l], w) /\ qs[l][k] # w
  <2>1. \E j \in 1..Len(rs[l]) : rs[l][j] = qs[l][k] /\ j <= k
    BY <1>1, <1>5, RemoveFirstPlace
  <2> QED BY <2>1 DEF Advances, rs
<1> QED BY <1>2, <1>3, <1>4, <1>5

\* Nor does _unregister().
LEMMA UnregisterPlace ==
  ASSUME NEW qs \in [Languages -> Seq(Workers)], NEW w, NEW ls, NEW l \in Languages,
         NEW k \in 1..Len(qs[l]), qs[l][k] # w
  PROVE  Advances(qs[l], UnregisterDeques(qs, w, ls)[l], qs[l][k], k, 0)
<1> DEFINE rs == UnregisterDeques(qs, w, ls)
<1>1. \/ rs[l] = qs[l]
      \/ rs[l] = Tail(qs[l]) /\ Head(qs[l]) = w
  BY DEF UnregisterDeques, AtHead
<1> HIDE DEF rs
<1>2. CASE rs[l] = qs[l]
  BY <1>2 DEF Advances, rs
<1>3. CASE rs[l] = Tail(qs[l]) /\ Head(qs[l]) = w
  <2>1. k - 1 \in 1..Len(rs[l]) /\ rs[l][k - 1] = qs[l][k]
    BY <1>3, TailPlace
  <2> QED BY <2>1 DEF Advances, rs
<1> QED BY <1>1, <1>2, <1>3

-----------------------------------------------------------------------------
\* A caller that has not been served holds nothing.
EmptyHanded == \A d \in Dispatchers : pc[d] \in {"idle", "ready", "waiting"} => held[d] = None

LEMMA EmptyHandedStep ==
  ASSUME Typed, EmptyHanded, [Next]_vars
  PROVE  EmptyHanded'
<1>1. pc \in [Dispatchers -> Places] /\ held \in [Dispatchers -> Workers \cup {None}]
  BY DEF Typed, TypeOK
<1>2. ASSUME NEW w, NEW ls, NEW d \in Dispatchers,
             CallersAfter(w, ls)[d] \in {"idle", "ready", "waiting"}
      PROVE  held[d] = None
  BY <1>1, <1>2 DEF CallersAfter, EmptyHanded
<1>3. ASSUME NEW w \in Workers, Environment(w) \/ MonitorDrop(w) PROVE EmptyHanded'
  <2>1. held' = held /\ \/ pc' = pc
                        \/ \E x, ls : pc' = CallersAfter(x, ls)
    BY <1>3 DEF Environment, Register, Reregister, Unregister, MonitorDrop, Drop, Heartbeat,
                ForgetHeartbeat, Age, SetHeartbeat, callers
  <2> QED BY <1>2, <2>1 DEF EmptyHanded
<1>4. ASSUME NEW d \in Dispatchers, MarkAvailable(d) PROVE EmptyHanded'
  <2>1. held' = [held EXCEPT ![d] = None]
        /\ \E ls : pc' = [CallersAfter(None, ls) EXCEPT ![d] = "idle"]
    BY <1>4 DEF MarkAvailable
  <2>2. ASSUME NEW c \in Dispatchers, pc'[c] \in {"idle", "ready", "waiting"}
        PROVE  held'[c] = None
    <3>1. CASE c = d
      BY <1>1, <2>1, <3>1
    <3>2. CASE c # d
      <4>1. PICK ls : pc' = [CallersAfter(None, ls) EXCEPT ![d] = "idle"]
        BY <2>1
      <4>2. pc'[c] = CallersAfter(None, ls)[c]
        BY <3>2, <4>1 DEF CallersAfter
      <4> QED BY <1>1, <1>2, <2>1, <2>2, <3>2, <4>2
    <3> QED BY <3>1, <3>2
  <2> QED BY <2>2 DEF EmptyHanded
<1>5. ASSUME NEW d \in Dispatchers, Serve(d) PROVE EmptyHanded'
  <2>1. /\ pc'[d] \in {"running", "offered"}
        /\ \A c \in Dispatchers : c # d => pc'[c] = pc[c] /\ held'[c] = held[c]
    BY <1>1, <1>5 DEF Serve
  <2> QED BY <2>1 DEF EmptyHanded
<1>6. ASSUME NEW d \in Dispatchers, \/ \E l \in Languages : Request(d, l)
                                    \/ Block(d) \/ GiveUp(d) \/ Claim(d) \/ Decline(d) \/ Finish(d)
      PROVE  EmptyHanded'
  BY <1>1, <1>6 DEF Request, Block, GiveUp, Claim, Decline, Finish, EmptyHanded, balancer
<1>7. CASE MonitorWake \/ UNCHANGED vars
  BY <1>7 DEF MonitorWake, callers, vars, EmptyHanded
<1> QED BY <1>3, <1>4, <1>5, <1>6, <1>7 DEF Next, Caller, Monitor

-----------------------------------------------------------------------------
\* One slot, one step.
LEMMA SlotStep ==
  ASSUME Typed, TombstonesAreTheDeadSlots, EmptyHanded, [Next]_vars,
         NEW l \in Languages, NEW k \in 1..Len(deques[l]), NEW x, x = deques[l][k],
         Free(x, l), Free(x, l)', ~\E p \in Profiles : Reregister(x, p)
  PROVE  \/ \E d \in Dispatchers : HandsOut(d, l) /\ held'[d] = x
         \/ Advances(deques[l], deques'[l], x, k,
                     IF \E d \in Dispatchers : HandsOut(d, l) THEN 1 ELSE 0)
<1> DEFINE Stays == Advances(deques[l], deques'[l], x, k, 0)
           Nobody == \A d \in Dispatchers : ~HandsOut(d, l)
           Goal == \/ \E d \in Dispatchers : HandsOut(d, l) /\ held'[d] = x
                   \/ Advances(deques[l], deques'[l], x, k,
                               IF \E d \in Dispatchers : HandsOut(d, l) THEN 1 ELSE 0)
<1>a. /\ deques \in [Languages -> Seq(Workers)] /\ Rings(deques)
      /\ deques[l] \in Seq(Workers) /\ IsInjective(deques[l])
      /\ held \in [Dispatchers -> Workers \cup {None}] /\ pc \in [Dispatchers -> Places]
  BY DEF Typed, TypeOK, SlotsAreUnique, Rings
<1>b. x \in Workers /\ Live(x, l)
  BY <1>a, FreeIsLive
<1>c. l \in LanguagesOf(x)' /\ x \in Registered'
  BY DEF Free, Supports, LanguagesOf
<1>d. Nobody /\ Stays => Goal
  BY DEF Advances
<1>e. ASSUME held' = held PROVE Nobody
  BY <1>e DEF HandsOut
<1>f. ASSUME deques'[l] = deques[l] PROVE Stays
  BY <1>a, <1>f DEF Advances
<1> HIDE DEF Stays, Nobody, Goal
<1>1. ASSUME NEW w \in Workers, NEW p \in Profiles, Register(w, p) PROVE Goal
  <2>1. /\ deques' = RegisterDeques(deques, w, LanguagesOf(w), NewEntity(p).langs)
        /\ workers' = Put(workers, w, NewEntity(p)) /\ held' = held
    BY <1>1 DEF Register
  <2>2. x = w => l \in NewEntity(p).langs
    BY <2>1 DEF Put, Free, Supports, Registered
  <2>3. Stays
    BY <1>a, <2>1, <2>2, RegisterPlace DEF Stays
  <2> QED BY <1>d, <1>e, <2>1, <2>3
<1>2. ASSUME NEW w \in Workers, NEW p \in Profiles, Reregister(w, p) PROVE Goal
  <2> DEFINE us == UnregisterDeques(deques, w, LanguagesOf(w))
  <2>1. deques' = RegisterDeques(us, w, {}, NewEntity(p).langs) /\ held' = held /\ x # w
    BY <1>2 DEF Reregister
  <2>2. us \in [Languages -> Seq(Workers)] /\ Rings(us)
    BY <1>a, UnregisterSlotsType
  <2>3. PICK i \in 1..Len(us[l]) : us[l][i] = x /\ i <= k - 0
    BY <1>a, <2>1, UnregisterPlace DEF Advances
  <2> HIDE DEF us
  <2>4. us[l][i] = w => l \in NewEntity(p).langs \/ l \notin {}
    OBVIOUS
  <2>5. Advances(us[l], deques'[l], us[l][i], i, 0)
    BY <2>1, <2>2, <2>4, RegisterPlace
  <2>6. PICK j \in 1..Len(deques'[l]) : deques'[l][j] = x /\ j <= i - 0
    BY <2>3, <2>5 DEF Advances
  <2>7. j <= k - 0
    BY <2>2, <2>3, <2>6
  <2>8. Stays
    BY <2>6, <2>7 DEF Stays, Advances
  <2> QED BY <1>d, <1>e, <2>1, <2>8
<1>3. ASSUME NEW w \in Workers, Drop(w) PROVE Goal
  <2>1. deques' = UnregisterDeques(deques, w, workers[w].langs) /\ held' = held
    BY <1>3 DEF Drop
  <2>2. x # w
    BY <1>3, <1>c DEF Drop, Restrict, Registered
  <2>3. Stays
    BY <1>a, <2>1, <2>2, UnregisterPlace DEF Stays
  <2> QED BY <1>d, <1>e, <2>1, <2>3
<1>4. ASSUME UNCHANGED <<deques, held>> PROVE Goal
  BY <1>4, <1>d, <1>e, <1>f
<1>5. ASSUME NEW d \in Dispatchers, MarkAvailable(d) PROVE Goal
  <2>1. pc[d] = "released" /\ held' = [held EXCEPT ![d] = None]
    BY <1>5 DEF MarkAvailable
  <2>2. Nobody
    BY <1>a, <2>1 DEF Nobody, HandsOut
  <2>3. CASE UNCHANGED balancer
    BY <1>d, <1>f, <2>2, <2>3 DEF balancer
  <2>4. CASE HasRoom(held[d]) /\ deques' = RegisterDeques(deques, held[d], {}, workers[held[d]].langs)
    <3> DEFINE w == held[d]
               ls == workers[w].langs
    <3>1. w \in Workers /\ deques' = RegisterDeques(deques, w, {}, ls)
      BY <2>4 DEF HasRoom, Typed, TypeOK
    <3> HIDE DEF w, ls
    <3>2. Stays
      BY <1>a, <3>1, RegisterPlace DEF Stays
    <3> QED BY <1>d, <2>2, <3>2
  <2> QED BY <1>5, <2>3, <2>4 DEF MarkAvailable
<1>6. ASSUME NEW d \in Dispatchers, Block(d) PROVE Goal
  <2>1. /\ want[d] \in Languages /\ held' = held
        /\ deques' = [deques EXCEPT ![want[d]] = <<>>]
        /\ \A i \in 1..Len(deques[want[d]]) : ~Live(deques[want[d]][i], want[d])
    BY <1>6 DEF Block, Typed, TypeOK
  <2>2. want[d] # l
    BY <1>b, <2>1
  <2>3. deques'[l] = deques[l]
    BY <1>a, <2>1, <2>2
  <2> QED BY <1>d, <1>e, <1>f, <2>1, <2>3
<1>7. ASSUME NEW d \in Dispatchers, Serve(d), want[d] # l PROVE Goal
  <2>1. PICK i \in 1..Len(deques[want[d]]) :
          /\ deques' = [deques EXCEPT ![want[d]] = RotateTo(deques[want[d]], i)]
          /\ held' = [held EXCEPT ![d] = deques[want[d]][i]]
    BY <1>7 DEF Serve
  <2>2. deques'[l] = deques[l]
    BY <1>a, <1>7, <2>1
  <2>3. Nobody
    BY <1>a, <1>7, <2>1 DEF Nobody, HandsOut
  <2> QED BY <1>d, <1>f, <2>2, <2>3
<1>8. ASSUME NEW d \in Dispatchers, Serve(d), want[d] = l PROVE Goal
  <2> DEFINE q == deques[l]
  <2>1. PICK i \in 1..Len(q) :
          /\ \A j \in 1..(i - 1) : ~Live(q[j], l)
          /\ deques' = [deques EXCEPT ![l] = RotateTo(q, i)]
          /\ held' = [held EXCEPT ![d] = q[i]]
          /\ pc[d] = "ready"
    BY <1>8 DEF Serve
  <2>2. ~(k < i)
    BY <1>b, <2>1
  <2>3. CASE k = i
    <3>1. held[d] = None /\ held'[d] = x
      BY <1>a, <2>1, <2>3 DEF EmptyHanded
    <3>2. HandsOut(d, l)
      BY <1>8, <1>b, <2>1, <3>1, NoneAssumption DEF HandsOut
    <3> QED BY <3>1, <3>2 DEF Goal
  <2>4. CASE i < k
    <3>1. Advances(q, RotateTo(q, i), q[k], k, 1)
      BY <1>a, <2>4, RotateToPlace
    <3>2. PICK j \in 1..Len(deques'[l]) : deques'[l][j] = x /\ j <= k - 1
      BY <1>a, <2>1, <3>1 DEF Advances
    <3>3. j <= k - 0
      BY <3>2
    <3> QED BY <3>2, <3>3 DEF Goal, Advances
  <2> QED BY <2>2, <2>3, <2>4
<1>9. ASSUME NEW w \in Workers, Environment(w) PROVE Goal
  BY <1>1, <1>2, <1>3, <1>4, <1>9
     DEF Environment, Unregister, Heartbeat, ForgetHeartbeat, Age, SetHeartbeat, balancer, callers
<1>10. ASSUME Monitor PROVE Goal
  BY <1>3, <1>4, <1>10 DEF Monitor, MonitorWake, MonitorDrop, balancer, callers
<1>11. ASSUME NEW d \in Dispatchers, Decline(d) PROVE Goal
  <2>1. /\ pc[d] = "offered" /\ deques' = deques
        /\ \A c \in Dispatchers : c # d => held'[c] = held[c]
    BY <1>a, <1>11 DEF Decline, balancer
  <2>2. Nobody
    BY <2>1 DEF Nobody, HandsOut
  <2> QED BY <1>d, <1>f, <2>1, <2>2
<1>12. ASSUME NEW d \in Dispatchers, Caller(d) PROVE Goal
  <2>1. CASE \/ \E m \in Languages : Request(d, m)
             \/ GiveUp(d) \/ Claim(d) \/ Finish(d)
    BY <1>4, <2>1 DEF Request, GiveUp, Claim, Finish, balancer
  <2> QED BY <1>5, <1>6, <1>7, <1>8, <1>11, <1>12, <2>1 DEF Caller
<1>13. ASSUME UNCHANGED vars PROVE Goal
  BY <1>4, <1>13 DEF vars
<1>14. Goal
  BY <1>9, <1>10, <1>12, <1>13 DEF Next
<1> QED BY <1>14 DEF Goal

LEMMA RotationStep ==
  ASSUME Typed, TombstonesAreTheDeadSlots, EmptyHanded, [Next]_vars,
         NEW l \in Languages, NEW x \in Slots(l),
         Free(x, l), Free(x, l)', ~\E p \in Profiles : Reregister(x, p)
  PROVE  \/ \E d \in Dispatchers : HandsOut(d, l) /\ held'[d] = x
         \/ MovesUp(x, l, IF \E d \in Dispatchers : HandsOut(d, l) THEN 1 ELSE 0)
<1>1. deques[l] \in Seq(Workers) /\ deques'[l] \in Seq(Workers)
  BY TypedStep DEF Typed, TypeOK
<1>2. PICK k \in 1..Len(deques[l]) : deques[l][k] = x
  BY <1>1 DEF Slots, ToSet
<1>3. \/ \E d \in Dispatchers : HandsOut(d, l) /\ held'[d] = x
      \/ Advances(deques[l], deques'[l], x, k,
                  IF \E d \in Dispatchers : HandsOut(d, l) THEN 1 ELSE 0)
  BY <1>2, SlotStep
<1> QED BY <1>1, <1>2, <1>3 DEF Advances, MovesUp

\* No worker with room waits longer than one round: it keeps its place in the
\* rotation of each of its languages, and every other worker that get_worker
\* hands out brings it nearer to the head.
THEOREM RotationIsRoundRobin == Spec => RotationIsFair
<1>1. Init => EmptyHanded
  BY DEF Init, EmptyHanded
<1>2. Typed /\ EmptyHanded /\ [Next]_vars => EmptyHanded'
  BY EmptyHandedStep
<1>3. Typed /\ TombstonesAreTheDeadSlots /\ EmptyHanded /\ [Next]_vars =>
        [\A l \in Languages : \A w \in Slots(l) :
           Free(w, l) /\ Free(w, l)' /\ ~(\E p \in Profiles : Reregister(w, p)) =>
             \/ \E d \in Dispatchers : HandsOut(d, l) /\ held'[d] = w
             \/ MovesUp(w, l, IF \E d \in Dispatchers : HandsOut(d, l) THEN 1 ELSE 0)]_vars
  BY RotationStep
<1> QED BY <1>1, <1>2, <1>3, TypesAndSlots, DeadSlots, PTL DEF Spec, Typed, RotationIsFair
=============================================================================
