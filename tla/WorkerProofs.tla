----------------------------- MODULE WorkerProofs -----------------------------
(***************************************************************************)
(* What WorkerService and MasterNodeService guarantee for any number of    *)
(* workers, requests, profiles and entities.                               *)
(***************************************************************************)
EXTENDS MasterNodeService, TLAPS

-----------------------------------------------------------------------------
(* The inductive invariants.                                                *)

Requests == [op : {None, "register", "shutdown"}, pc : Places, id : Workers \cup {None},
             obj : Objects \cup {None}, add : BOOLEAN]
Entities == [profile : Profiles \cup {None}, status : {"online", "offline"},
             heartbeat : {"fresh", "stale", "none"}]
Leftovers == {"register", "shutdown"} \X Workers

\* What a request is once it has begun, and which of its turns have an entity.
Carried(c) ==
  /\ req[c].pc = "idle" => req[c] = Idle
  /\ req[c].pc # "idle" => up /\ req[c].id \in Workers /\ req[c].op # None
  /\ req[c].op = "register" => req[c].obj # None
  /\ req[c].op = "shutdown" => ~req[c].add /\ (req[c].obj # None <=> req[c].pc # "finding")

\* An entity belongs to one worker, whoever holds it, and has its profile.
Owned ==
  /\ \A w \in Registered : objs[registry[w]].profile \in Profiles
  /\ \A c \in Clients : req[c].obj # None =>
       /\ objs[req[c].obj].profile \in Profiles
       /\ \A w \in Registered : registry[w] = req[c].obj => w = req[c].id
       /\ \A d \in Clients : req[d].obj = req[c].obj => req[d].id = req[c].id

Typed ==
  /\ TypeOK
  /\ req \in [Clients -> Requests]
  /\ \A c \in Clients : Carried(c)
  /\ ~up => Registered = {} /\ gone = {}

Sound == Typed /\ Owned

\* A tracked worker without a heartbeat is one that is being shut down, or was when
\* that broke off.
ShuttingDown(w) ==
  \E c \in Clients : req[c].op = "shutdown" /\ req[c].id = w /\ req[c].pc \in {"saving", "saved"}
Excused(w) == ShuttingDown(w) \/ <<"shutdown", w>> \in broken
SilenceIsExcused ==
  \A w \in Registered : objs[registry[w]].heartbeat = "none" => Excused(w)

\* With one request of a worker at a time: a registration that has committed finds its
\* row in the table, and a shutdown works on the entity that is registered, if any.
OneEach ==
  \A c, d \in Clients : c # d /\ req[c].pc # "idle" => req[d].id # req[c].id
Committed(c) == req[c].op = "register" /\ req[c].pc = "saved"
HasRow(c) ==
  req[c].id \in DOMAIN table /\ table[req[c].id] = objs[req[c].obj].profile
Written == \A c \in Clients : Committed(c) => HasRow(c)
Whole == \A c \in Clients : Committed(c) => <<"register", req[c].id>> \notin broken
Held ==
  \A c \in Clients :
    req[c].op = "shutdown" /\ req[c].id \in Registered => registry[req[c].id] = req[c].obj

\* Why a tracked worker may have another row than its entity.
Differs(w) ==
  \/ \E c \in Clients : Committed(c) /\ req[c].id = w
  \/ <<"register", w>> \in broken
Tracked ==
  \A w \in Registered :
    w \in DOMAIN table /\ (objs[registry[w]].profile = table[w] \/ Differs(w))
Agreed == OneEach /\ Written /\ Whole /\ Held /\ Tracked

\* Nothing is at work on a worker that was told it is connected.
Told ==
  /\ told \in [Workers -> Profiles \cup {None}]
  /\ \A w \in Workers : told[w] # None =>
       /\ w \in DOMAIN table /\ table[w] = told[w]
       /\ ~Working(w) /\ <<"register", w>> \notin broken
       /\ up => w \in Registered

-----------------------------------------------------------------------------
(* Types and ownership.                                                     *)

\* Putting an entity that no other worker has keeps the registry injective.
LEMMA PutInjective ==
  ASSUME NEW f, IsInjective(f), NEW k, NEW v, \A x \in DOMAIN f : f[x] = v => x = k
  PROVE  IsInjective(Put(f, k, v))
<1>1. SUFFICES ASSUME NEW a \in DOMAIN f \cup {k}, NEW b \in DOMAIN f \cup {k},
                      Put(f, k, v)[a] = Put(f, k, v)[b]
               PROVE  a = b
  BY DEF Put, IsInjective
<1> QED BY <1>1 DEF Put, IsInjective

LEMMA WithoutInjective ==
  ASSUME NEW f, IsInjective(f), NEW k
  PROVE  IsInjective(Without(f, k))
BY DEF Without, Restrict, IsInjective

LEMMA SoundMeaning ==
  ASSUME Sound
  PROVE  /\ DOMAIN table \subseteq Workers /\ table \in [DOMAIN table -> Profiles]
         /\ up \in BOOLEAN /\ gone \subseteq Workers /\ broken \subseteq Leftovers
         /\ Registered \subseteq Workers /\ registry \in [Registered -> Objects]
         /\ IsInjective(registry)
         /\ objs \in [Objects -> Entities]
         /\ req \in [Clients -> Requests]
         /\ \A c \in Clients : Carried(c)
BY DEF Sound, Typed, TypeOK, Entities, Leftovers

\* What a step has to restore; the rest of TypeOK follows.
LEMMA SoundIntro ==
  ASSUME DOMAIN table' \subseteq Workers, table' \in [DOMAIN table' -> Profiles],
         up' \in BOOLEAN, gone' \subseteq Workers, broken' \subseteq Leftovers,
         Registered' \subseteq Workers, registry' \in [Registered' -> Objects],
         IsInjective(registry'),
         objs' \in [Objects -> Entities], req' \in [Clients -> Requests],
         \A c \in Clients : Carried(c)', ~up' => Registered' = {} /\ gone' = {}, Owned'
  PROVE  Sound'
<1>1. \A c \in Clients :
        /\ req'[c].pc \in Places
        /\ req'[c].pc # "idle" => up' /\ req'[c].id \in Workers
        /\ req'[c].pc \in {"saving", "saved"} => req'[c].obj \in Objects
  BY NoneAssumption DEF Carried, Requests, Places
<1> QED BY <1>1 DEF Sound, Typed, TypeOK, Entities, Leftovers

\* What a request leaves behind when it breaks off is of its own kind and worker.
LEMMA LeavesType ==
  ASSUME Sound, NEW c \in Clients, req[c].pc # "idle"
  PROVE  Leaves(req[c]) \subseteq Leftovers
<1>1. req[c].op \in {"register", "shutdown"} /\ req[c].id \in Workers
  BY SoundMeaning DEF Carried, Requests
<1> QED BY <1>1 DEF Leaves, Leftovers

LEMMA BrokenType ==
  ASSUME Sound, [Next]_vars
  PROVE  broken' \subseteq Leftovers
<1>1. ASSUME NEW c \in Clients, Fail(c) \/ Abandon(c) PROVE broken' \subseteq Leftovers
  <2>1. req[c].pc # "idle" /\ broken' = broken \cup Leaves(req[c])
    BY <1>1 DEF Fail, Abandon
  <2> QED BY <2>1, LeavesType, SoundMeaning
<1>2. ASSUME NEW c \in Clients, Client(c), ~Fail(c), ~Abandon(c) PROVE broken' \subseteq broken
  BY <1>2 DEF Client, Shutdown, Register, RegisterFound, ShutdownFound, Save, RegisterReturn,
              ShutdownReturn
<1>3. ASSUME NEW w \in Workers, Worker(w) PROVE broken' \subseteq broken
  BY <1>3 DEF Worker, Heartbeat, Age, HandOut, Expire
<1>4. Restore \/ Crash \/ UNCHANGED vars => broken' \subseteq broken
  BY DEF Restore, Crash, vars
<1> QED BY <1>1, <1>2, <1>3, <1>4, SoundMeaning DEF Next

\* What Fresh gives: an entity nobody has.
LEMMA FreshFacts ==
  ASSUME NEW o, Fresh(o)
  PROVE  /\ o \in Objects
         /\ \A w \in Registered : registry[w] # o
         /\ \A c \in Clients : req[c].obj # o
BY DEF Fresh, Live

\* A request of c moves on or ends; nothing but its own entity, table and gone change.
LEMMA RequestStep ==
  ASSUME Sound, NEW c \in Clients, NEW r \in Requests,
         up', registry' = registry, req' = [req EXCEPT ![c] = r],
         objs' \in [Objects -> Entities],
         DOMAIN table' \subseteq Workers, table' \in [DOMAIN table' -> Profiles],
         gone' \subseteq Workers, broken' \subseteq Leftovers,
         Carried(c)',
         \* the entity is fresh, or the request or the registry had it before
         r.obj # None =>
           /\ objs'[r.obj].profile \in Profiles
           /\ \/ Fresh(r.obj)
              \/ req[c].obj = r.obj /\ req[c].id = r.id
              \/ r.id \in Registered /\ registry[r.id] = r.obj,
         \A o \in Objects : objs'[o].profile # objs[o].profile => Fresh(o)
  PROVE  Sound'
<1>a. /\ req' \in [Clients -> Requests] /\ req'[c] = r
      /\ \A d \in Clients : d # c => req'[d] = req[d]
  BY SoundMeaning
<1>1. \A d \in Clients : Carried(d)'
  BY <1>a, SoundMeaning DEF Carried
<1>2. \A w \in Registered' : objs'[registry'[w]].profile \in Profiles
  BY SoundMeaning, FreshFacts DEF Registered, Sound, Owned
<1>3. \A d \in Clients : req'[d].obj # None => objs'[req'[d].obj].profile \in Profiles
  <2>1. ASSUME NEW d \in Clients, d # c, req[d].obj # None
        PROVE  objs'[req[d].obj].profile \in Profiles
    <3>1. req[d].obj \in Objects
      BY <2>1, SoundMeaning DEF Requests
    <3> QED BY <2>1, <3>1, FreshFacts DEF Sound, Owned
  <2> QED BY <1>a, <2>1
<1>4. ASSUME NEW d \in Clients, req'[d].obj # None, NEW w \in Registered, registry[w] = req'[d].obj
      PROVE  w = req'[d].id
  BY <1>a, <1>4, FreshFacts, SoundMeaning DEF Sound, Owned, IsInjective, Registered
<1>5. ASSUME NEW d \in Clients, req'[d].obj # None, NEW e \in Clients, req'[e].obj = req'[d].obj
      PROVE  req'[e].id = req'[d].id
  BY <1>a, <1>5, FreshFacts, SoundMeaning DEF Sound, Owned, Registered
<1>6. Owned'
  BY <1>2, <1>3, <1>4, <1>5 DEF Owned, Registered
<1>7. Registered' = Registered
  BY DEF Registered
<1> HIDE DEF Registered
<1> QED BY <1>a, <1>1, <1>6, <1>7, SoundIntro, SoundMeaning

LEMMA ConnectedType ==
  ASSUME NEW p \in Profiles
  PROVE  /\ Connected(p) \in Entities /\ Connected(p).profile = p
         /\ Connected(p).heartbeat = "fresh"
BY DEF Connected, Entities

LEMMA OfflineType ==
  ASSUME NEW e \in Entities
  PROVE  Offline(e) \in Entities /\ Offline(e).profile = e.profile
BY DEF Offline, Entities

\* The actions of a request that leave the registry alone.
LEMMA ClientStep ==
  ASSUME Sound, NEW c \in Clients,
         \/ \E w \in Workers : Shutdown(c, w) \/ \E p \in Profiles : Register(c, w, p)
         \/ RegisterFound(c) \/ ShutdownFound(c) \/ Save(c) \/ Fail(c) \/ Abandon(c)
  PROVE  Sound'
<1> DEFINE r == req[c]
<1>a. /\ req \in [Clients -> Requests] /\ r \in Requests /\ Carried(c)
      /\ objs \in [Objects -> Entities]
      /\ DOMAIN table \subseteq Workers /\ table \in [DOMAIN table -> Profiles]
      /\ Registered \subseteq Workers /\ registry \in [Registered -> Objects]
      /\ gone \subseteq Workers
  BY SoundMeaning
<1>b. Idle \in Requests
  BY DEF Idle, Requests, Places
<1>c. r.obj # None => r.obj \in Objects /\ objs[r.obj].profile \in Profiles
  BY <1>a DEF Requests, Sound, Owned
<1>d. broken' \subseteq Leftovers
  BY BrokenType DEF Client, Next
<1>1. ASSUME NEW w \in Workers, NEW p \in Profiles, Register(c, w, p) PROVE Sound'
  <2>1. PICK o \in Objects :
          /\ Fresh(o)
          /\ objs' = [objs EXCEPT ![o] = Connected(p)]
          /\ req' = [req EXCEPT ![c] =
                       [op |-> "register", id |-> w, obj |-> o, add |-> FALSE,
                        pc |-> IF w \in Registered THEN "saving" ELSE "finding"]]
    BY <1>1 DEF Register, Becomes
  <2> DEFINE n == [op |-> "register", id |-> w, obj |-> o, add |-> FALSE,
                   pc |-> IF w \in Registered THEN "saving" ELSE "finding"]
  <2>2. /\ n \in Requests /\ n.op = "register" /\ n.obj = o /\ n.id = w
        /\ n.pc \in {"saving", "finding"}
    BY DEF Requests, Places
  <2>3. req' = [req EXCEPT ![c] = n]
    BY <2>1
  <2> HIDE DEF n
  <2>4. objs' \in [Objects -> Entities] /\ objs'[o].profile = p
        /\ \A x \in Objects : objs'[x].profile # objs[x].profile => Fresh(x)
    BY <1>a, <2>1, ConnectedType
  <2>5. up' /\ UNCHANGED <<table, registry, gone>>
    BY <1>1 DEF Register, CanStart
  <2>6. Carried(c)'
    BY <1>a, <2>2, <2>3, <2>5, NoneAssumption DEF Carried, None
  <2>7. Fresh(n.obj) /\ objs'[n.obj].profile \in Profiles
    BY <2>1, <2>2, <2>4
  <2> QED BY <1>a, <2>2, <2>3, <2>4, <2>5, <2>6, <2>7, <1>d, RequestStep
<1>2. ASSUME NEW w \in Workers, Shutdown(c, w) PROVE Sound'
  <2>1. up' /\ UNCHANGED <<table, registry, gone>>
    BY <1>2 DEF Shutdown, CanStart
  <2>2. CASE w \in Registered
    <3> DEFINE n == [op |-> "shutdown", id |-> w, obj |-> registry[w], add |-> FALSE,
                     pc |-> "saving"]
               o == registry[w]
    <3>1. n \in Requests /\ n.obj = o /\ n.id = w /\ o \in Objects
      BY <1>a, <2>2 DEF Requests, Places
    <3>2. req' = [req EXCEPT ![c] = n] /\ objs' = [objs EXCEPT ![o] = Offline(objs[o])]
      BY <1>2, <2>2 DEF Shutdown, Becomes
    <3>3. Carried(c)'
      <4>1. n.op = "shutdown" /\ n.pc = "saving" /\ ~n.add
        OBVIOUS
      <4> HIDE DEF n
      <4> QED BY <1>a, <2>1, <3>1, <3>2, <4>1, NoneAssumption DEF Carried, None
    <3> HIDE DEF n, o
    <3>4. /\ objs' \in [Objects -> Entities]
          /\ \A x \in Objects : objs'[x].profile = objs[x].profile
      BY <1>a, <3>1, <3>2, OfflineType
    <3>5. objs[o].profile \in Profiles
      BY <2>2, SoundMeaning DEF Sound, Owned, o
    <3>6. n.id \in Registered /\ registry[n.id] = n.obj
      BY <2>2, <3>1 DEF o
    <3> QED BY <1>a, <2>1, <3>1, <3>2, <3>3, <3>4, <3>5, <3>6, <1>d, RequestStep
  <2>3. CASE w \notin Registered
    <3> DEFINE n == [Idle EXCEPT !.op = "shutdown", !.id = w, !.pc = "finding"]
    <3>1. /\ n \in Requests /\ n.obj = None /\ n.op = "shutdown" /\ n.pc = "finding" /\ ~n.add
          /\ n.id = w
      BY DEF Requests, Places, Idle
    <3>2. req' = [req EXCEPT ![c] = n] /\ objs' = objs
      BY <1>2, <2>3 DEF Shutdown, Becomes
    <3> HIDE DEF n
    <3>3. Carried(c)'
      BY <1>a, <2>1, <3>1, <3>2 DEF Carried, None
    <3> QED BY <1>a, <2>1, <3>1, <3>2, <3>3, <1>d, RequestStep
  <2> QED BY <2>2, <2>3
<1>3. CASE RegisterFound(c)
  <2> DEFINE n == [r EXCEPT !.pc = "saving", !.add = r.id \notin DOMAIN table]
  <2>1. /\ r.op = "register" /\ r.pc = "finding" /\ req' = [req EXCEPT ![c] = n]
        /\ UNCHANGED <<table, up, registry, objs, gone>>
    BY <1>3 DEF RegisterFound, Becomes
  <2>2. /\ n \in Requests /\ n.op = "register" /\ n.pc = "saving"
        /\ n.obj = r.obj /\ n.id = r.id
    BY <1>a, <2>1 DEF Requests, Places
  <2> HIDE DEF n
  <2>3. up /\ up' /\ Carried(c)'
    BY <1>a, <2>1, <2>2 DEF Carried, None
  <2> QED BY <1>a, <1>c, <2>1, <2>2, <2>3, <1>d, RequestStep
<1>4. CASE ShutdownFound(c)
  <2>1. /\ r.op = "shutdown" /\ r.pc = "finding" /\ UNCHANGED <<table, up, registry, gone>>
        /\ up /\ up'
    BY <1>4, <1>a DEF ShutdownFound, Carried
  <2>2. ASSUME NEW o \in Objects, Fresh(o), r.id \in DOMAIN table,
               objs' = [objs EXCEPT ![o] = Offline(Connected(table[r.id]))],
               Becomes(c, [r EXCEPT !.pc = "saving", !.obj = o])
        PROVE  Sound'
    <3> DEFINE n == [r EXCEPT !.pc = "saving", !.obj = o]
    <3>1. req' = [req EXCEPT ![c] = n]
      BY <2>2 DEF Becomes
    <3>2. /\ n \in Requests /\ n.op = "shutdown" /\ n.pc = "saving" /\ n.obj = o
          /\ n.id = r.id /\ n.add = r.add
      BY <1>a, <2>1 DEF Requests, Places
    <3> HIDE DEF n
    <3>3. Carried(c)'
      BY <1>a, <2>1, <3>1, <3>2, NoneAssumption DEF Carried, None
    <3>4. /\ objs' \in [Objects -> Entities] /\ objs'[o].profile \in Profiles
          /\ \A x \in Objects : objs'[x].profile # objs[x].profile => Fresh(x)
      BY <1>a, <2>2, ConnectedType, OfflineType
    <3>5. Fresh(n.obj) /\ objs'[n.obj].profile \in Profiles
      BY <2>2, <3>2, <3>4
    <3> QED BY <1>a, <2>1, <3>1, <3>2, <3>3, <3>4, <3>5, <1>d, RequestStep
  <2>3. ASSUME Becomes(c, Idle), UNCHANGED objs PROVE Sound'
    <3>1. req' = [req EXCEPT ![c] = Idle]
      BY <2>3 DEF Becomes
    <3>2. Idle.obj = None /\ Carried(c)'
      BY <1>a, <2>1, <3>1 DEF Carried, Idle, None
    <3> QED BY <1>a, <1>b, <2>1, <2>3, <3>1, <3>2, <1>d, RequestStep
  <2> QED BY <1>4, <2>2, <2>3 DEF ShutdownFound
<1>5. CASE Save(c)
  <2> DEFINE n == [r EXCEPT !.pc = "saved"]
  <2>1. /\ r.pc = "saving" /\ req' = [req EXCEPT ![c] = n]
        /\ table' = Put(table, r.id, objs[r.obj].profile)
        /\ UNCHANGED <<up, registry, objs, gone>>
    BY <1>5 DEF Save, Row, Becomes
  <2>2. n \in Requests /\ n.op = r.op /\ n.pc = "saved" /\ n.obj = r.obj /\ n.id = r.id
        /\ n.add = r.add
    BY <1>a, <2>1 DEF Requests, Places
  <2> HIDE DEF n
  <2>3. up /\ up' /\ r.id \in Workers /\ r.obj # None /\ Carried(c)'
    BY <1>a, <2>1, <2>2 DEF Carried, None, Requests
  <2>4. DOMAIN table' \subseteq Workers /\ table' \in [DOMAIN table' -> Profiles]
    BY <1>a, <1>c, <2>1, <2>3 DEF Put
  <2> QED BY <1>a, <1>c, <2>1, <2>2, <2>3, <2>4, <1>d, RequestStep
<1>6. CASE Fail(c) \/ Abandon(c)
  <2>1. /\ r.pc # "idle" /\ req' = [req EXCEPT ![c] = Idle]
        /\ UNCHANGED <<table, up, registry, objs, gone>>
    BY <1>6 DEF Fail, Abandon, Becomes
  <2>2. up /\ up' /\ Idle.obj = None /\ Carried(c)'
    BY <1>a, <2>1 DEF Carried, Idle, None
  <2> QED BY <1>a, <1>b, <2>1, <2>2, <1>d, RequestStep
<1> QED BY <1>1, <1>2, <1>3, <1>4, <1>5, <1>6

\* The actions that change the registry.
LEMMA RegistryStep ==
  ASSUME Sound,
         \/ Restore \/ Crash
         \/ \E c \in Clients : RegisterReturn(c) \/ ShutdownReturn(c)
         \/ \E w \in Workers : Expire(w)
  PROVE  Sound'
<1>a. /\ req \in [Clients -> Requests] /\ \A c \in Clients : req[c] \in Requests /\ Carried(c)
      /\ objs \in [Objects -> Entities]
      /\ DOMAIN table \subseteq Workers /\ table \in [DOMAIN table -> Profiles]
      /\ Registered \subseteq Workers /\ registry \in [Registered -> Objects]
      /\ IsInjective(registry) /\ up \in BOOLEAN /\ gone \subseteq Workers
  BY SoundMeaning
<1>b. Idle \in Requests /\ Idle.obj = None /\ Idle.pc = "idle" /\ Idle.op = None
  BY DEF Idle, Requests, Places
<1>d. broken' \subseteq Leftovers
  BY BrokenType DEF Client, Worker, Next
<1>1. CASE Restore
  <2>1. PICK new \in Injection(DOMAIN table, Objects) :
          /\ registry' = new
          /\ objs' = [o \in Objects |->
                        IF \E w \in DOMAIN table : new[w] = o
                        THEN Connected(table[CHOOSE w \in DOMAIN table : new[w] = o])
                        ELSE Unused]
    BY <1>1 DEF Restore
  <2>2. /\ registry' \in [DOMAIN table -> Objects] /\ IsInjective(registry')
        /\ Registered' = DOMAIN table
    BY <2>1 DEF Injection, Registered
  <2>3. ~up /\ up' /\ up' \in BOOLEAN /\ UNCHANGED <<table, req, gone>>
    BY <1>1 DEF Restore
  <2>4. Unused \in Entities
    BY DEF Unused, Entities
  <2>5. \A w \in DOMAIN table : objs'[registry'[w]] = Connected(table[w])
    BY <2>1 DEF Injection, IsInjective
  <2>6. objs' \in [Objects -> Entities]
    <3>1. ASSUME NEW o \in Objects PROVE objs'[o] \in Entities
      BY <1>a, <2>1, <2>4, ConnectedType
    <3> QED BY <2>1, <3>1
  <2>7. \A c \in Clients : req[c] = Idle
    BY <1>a, <2>3 DEF Carried
  <2>8. Owned'
    BY <1>a, <1>b, <2>2, <2>3, <2>5, <2>7, ConnectedType DEF Owned
  <2>9. \A c \in Clients : Carried(c)'
    BY <1>b, <2>3, <2>7 DEF Carried, None
  <2> QED BY <1>a, <2>2, <2>3, <2>6, <2>8, <2>9, <1>d, SoundIntro
<1>2. CASE Crash
  <2>1. /\ ~up' /\ up' \in BOOLEAN /\ registry' = [w \in {} |-> None] /\ req' = [c \in Clients |-> Idle]
        /\ objs' = [o \in Objects |-> Unused] /\ gone' = {} /\ table' = table
    BY <1>2 DEF Crash
  <2>2. Registered' = {} /\ registry' \in [{} -> Objects] /\ IsInjective(registry')
    BY <2>1 DEF Registered, IsInjective
  <2>3. objs' \in [Objects -> Entities] /\ req' \in [Clients -> Requests]
    BY <1>b, <2>1 DEF Unused, Entities
  <2>4. Owned' /\ \A c \in Clients : Carried(c)'
    BY <1>b, <2>1, <2>2 DEF Owned, Carried, None
  <2> QED BY <1>a, <2>1, <2>2, <2>3, <2>4, <1>d, SoundIntro
<1>3. ASSUME NEW c \in Clients, RegisterReturn(c) PROVE Sound'
  <2> DEFINE r == req[c]
             o == r.obj
             k == r.id
  <2>1. /\ r.op = "register" /\ r.pc = "saved" /\ registry' = Put(registry, k, o)
        /\ objs' = [objs EXCEPT ![o] = Connected(@.profile)]
        /\ gone' = gone \ {k} /\ req' = [req EXCEPT ![c] = Idle]
        /\ UNCHANGED <<table, up>>
    BY <1>3 DEF RegisterReturn, Becomes
  <2>2. /\ up /\ up' /\ k \in Workers /\ o \in Objects /\ o # None
        /\ objs[o].profile \in Profiles
        /\ \A w \in Registered : registry[w] = o => w = k
        /\ \A d \in Clients : req[d].obj = o => req[d].id = k
    BY <1>a, <2>1, SoundMeaning DEF Carried, Requests, Sound, Owned
  <2> HIDE DEF r, o, k
  <2>3. /\ Registered' = Registered \cup {k} /\ registry' \in [Registered' -> Objects]
        /\ IsInjective(registry') /\ registry'[k] = o
        /\ \A w \in Registered : w # k => registry'[w] = registry[w]
    <3> DEFINE g == Put(registry, k, o)
    <3>1. /\ g \in [Registered \cup {k} -> Objects] /\ DOMAIN g = Registered \cup {k}
          /\ g[k] = o /\ \A w \in Registered : w # k => g[w] = registry[w]
      BY <1>a, <2>2 DEF Put
    <3>2. IsInjective(g)
      BY <1>a, <2>2, PutInjective DEF Registered
    <3> HIDE DEF g
    <3>3. registry' = g
      BY <2>1 DEF g
    <3> QED BY <3>1, <3>2, <3>3 DEF Registered
  <2>4. /\ objs' \in [Objects -> Entities]
        /\ \A x \in Objects : objs'[x].profile = objs[x].profile
    BY <1>a, <2>1, <2>2, ConnectedType
  <2>5. \A d \in Clients : req'[d] = Idle \/ req'[d] = req[d]
    BY <1>a, <2>1
  <2>6. \A d \in Clients : Carried(d)'
    BY <1>a, <1>b, <2>1, <2>2, <2>5 DEF Carried, None
  <2>7. \A d \in Clients : req[d].obj # None => req[d].obj \in Objects
    BY <1>a DEF Requests
  <2>8. Owned'
    <3>1. \A w \in Registered' : objs'[registry'[w]].profile \in Profiles
      BY <1>a, <2>2, <2>3, <2>4 DEF Sound, Owned
    <3>2. ASSUME NEW d \in Clients, req'[d].obj # None
          PROVE  /\ objs'[req'[d].obj].profile \in Profiles
                 /\ \A w \in Registered' : registry'[w] = req'[d].obj => w = req'[d].id
                 /\ \A e \in Clients : req'[e].obj = req'[d].obj => req'[e].id = req'[d].id
      <4>1. req'[d] = req[d] /\ req[d].obj # None /\ req[d].obj \in Objects
        BY <1>b, <2>5, <2>7, <3>2
      <4>2. objs'[req[d].obj].profile \in Profiles
        BY <2>4, <4>1 DEF Sound, Owned
      <4>3. \A w \in Registered' : registry'[w] = req[d].obj => w = req[d].id
        BY <2>2, <2>3, <4>1 DEF Sound, Owned
      <4>4. \A e \in Clients : req'[e].obj = req[d].obj => req'[e].id = req[d].id
        BY <1>b, <2>5, <4>1 DEF Sound, Owned
      <4> QED BY <4>1, <4>2, <4>3, <4>4
    <3> QED BY <3>1, <3>2 DEF Owned
  <2>9. req' \in [Clients -> Requests] /\ Registered' \subseteq Workers /\ gone' \subseteq Workers
    BY <1>a, <1>b, <2>1, <2>2, <2>3
  <2> QED BY <1>a, <2>1, <2>2, <2>3, <2>4, <2>6, <2>8, <2>9, <1>d, SoundIntro
<1>4. ASSUME NEW k \in Workers, registry' = Without(registry, k), UNCHANGED <<table, objs>>,
             up', gone' \subseteq Workers, req' \in [Clients -> Requests],
             \A d \in Clients : req'[d] = Idle \/ req'[d] = req[d]
      PROVE  Sound'
  <2>1. /\ Registered' = Registered \ {k} /\ registry' \in [Registered' -> Objects]
        /\ IsInjective(registry')
        /\ \A w \in Registered' : registry'[w] = registry[w]
    <3> DEFINE g == Without(registry, k)
    <3>1. /\ g \in [Registered \ {k} -> Objects] /\ DOMAIN g = Registered \ {k}
          /\ \A w \in Registered \ {k} : g[w] = registry[w]
      BY <1>a DEF Without, Restrict
    <3>2. IsInjective(g)
      BY <1>a, WithoutInjective
    <3> HIDE DEF g
    <3>3. registry' = g
      BY <1>4 DEF g
    <3> QED BY <3>1, <3>2, <3>3 DEF Registered
  <2>2. \A d \in Clients : Carried(d)'
    BY <1>a, <1>b, <1>4 DEF Carried, None
  <2>3. Owned'
    BY <1>b, <1>4, <2>1 DEF Sound, Owned
  <2> QED BY <1>a, <1>4, <2>1, <2>2, <2>3, <1>d, SoundIntro
<1>5. ASSUME NEW c \in Clients, ShutdownReturn(c) PROVE Sound'
  <2>1. /\ req[c].op = "shutdown" /\ req[c].pc = "saved"
        /\ registry' = Without(registry, req[c].id) /\ gone' = gone \cup {req[c].id}
        /\ req' = [req EXCEPT ![c] = Idle] /\ UNCHANGED <<table, up, objs>>
    BY <1>5 DEF ShutdownReturn, Untracked, Becomes
  <2>2. req[c].id \in Workers /\ up'
    BY <1>a, <2>1 DEF Carried
  <2> QED BY <1>a, <1>b, <1>4, <2>1, <2>2
<1>6. ASSUME NEW w \in Workers, Expire(w) PROVE Sound'
  BY <1>a, <1>4, <1>6 DEF Expire
<1> QED BY <1>1, <1>2, <1>3, <1>5, <1>6

\* What goes on beside the requests keeps the profile of an entity.
LEMMA TouchType ==
  ASSUME Sound, NEW w \in Workers, Heartbeat(w) \/ Age(w) \/ HandOut(w)
  PROVE  /\ w \in Registered /\ registry[w] \in Objects
         /\ objs' \in [Objects -> Entities]
         /\ \A x \in Objects : /\ objs'[x].profile = objs[x].profile
                               /\ objs'[x].heartbeat = "none" => objs[x].heartbeat = "none"
         /\ UNCHANGED <<table, up, registry, req, gone>>
<1>1. w \in Registered /\ objs \in [Objects -> Entities] /\ registry[w] \in Objects
  BY SoundMeaning DEF Heartbeat, Age, HandOut, Touch
<1>2. PICK e : /\ objs' = [objs EXCEPT ![registry[w]] = e]
               /\ \/ e = [objs[registry[w]] EXCEPT !.heartbeat = "fresh"]
                  \/ e = [objs[registry[w]] EXCEPT !.heartbeat = "stale"]
                  \/ e = [objs[registry[w]] EXCEPT !.status = "online"]
               /\ UNCHANGED <<table, up, registry, req, gone>>
  BY DEF Heartbeat, Age, HandOut, Touch
<1>3. /\ e \in Entities /\ e.profile = objs[registry[w]].profile
      /\ e.heartbeat = "none" => objs[registry[w]].heartbeat = "none"
  BY <1>1, <1>2 DEF Entities
<1> QED BY <1>1, <1>2, <1>3

LEMMA SoundStep ==
  ASSUME Sound, [Next]_vars
  PROVE  Sound'
<1>1. ASSUME NEW w \in Workers, Heartbeat(w) \/ Age(w) \/ HandOut(w) PROVE Sound'
  <2>1. /\ objs' \in [Objects -> Entities]
        /\ \A x \in Objects : objs'[x].profile = objs[x].profile
        /\ UNCHANGED <<table, up, registry, req, gone>>
    BY <1>1, TouchType
  <2>2. \A c \in Clients : Carried(c)'
    BY <2>1, SoundMeaning DEF Carried
  <2>3. \A c \in Clients : req[c].obj # None => req[c].obj \in Objects
    BY SoundMeaning DEF Requests
  <2>4. Owned'
    BY <2>1, <2>3, SoundMeaning DEF Sound, Owned, Registered
  <2>5. broken' \subseteq Leftovers
    BY <1>1, BrokenType DEF Worker, Next
  <2> QED BY <2>1, <2>2, <2>4, <2>5, SoundMeaning, SoundIntro DEF Registered, Sound, Typed
<1>2. CASE UNCHANGED vars
  BY <1>2 DEF vars, Sound, Typed, TypeOK, Owned, Carried, Registered
<1>3. ASSUME NEW c \in Clients, Client(c) PROVE Sound'
  BY <1>3, ClientStep, RegistryStep DEF Client
<1>4. ASSUME NEW w \in Workers, Worker(w) PROVE Sound'
  BY <1>1, <1>4, RegistryStep DEF Worker
<1> QED BY <1>2, <1>3, <1>4, RegistryStep DEF Next

LEMMA SoundInit == Init => Sound
<1> SUFFICES ASSUME Init PROVE Sound
  OBVIOUS
<1>1. /\ DOMAIN table \subseteq Workers /\ table \in [DOMAIN table -> Profiles]
      /\ up = FALSE /\ gone = {} /\ Registered = {} /\ registry \in [{} -> Objects]
      /\ IsInjective(registry) /\ broken = {}
  BY DEF Init, Registered, IsInjective
<1>2. objs \in [Objects -> Entities]
  BY DEF Init, Unused, Entities
<1>3. req \in [Clients -> Requests] /\ \A c \in Clients : req[c] = Idle
  BY DEF Init, Idle, Requests, Places
<1>4. \A c \in Clients : Carried(c) /\ req[c].obj = None /\ req[c].pc = "idle"
  BY <1>3 DEF Carried, Idle, None
<1>5. TypeOK
  BY <1>1, <1>2, <1>4 DEF TypeOK, Places, Entities
<1> QED BY <1>1, <1>3, <1>4, <1>5 DEF Sound, Typed, Owned

LEMMA AlwaysSound == Spec => []Sound
BY SoundInit, SoundStep, PTL DEF Spec

\* Every variable keeps its type, no two tracked workers share an entity, and no
\* request touches the entity of another worker.
THEOREM WorkersTyped == Spec => []TypeOK
<1>1. Sound => TypeOK
  BY DEF Sound, Typed
<1> QED BY <1>1, AlwaysSound, PTL

-----------------------------------------------------------------------------
(* Shutdowns and heartbeats, however many requests a worker has in flight.  *)

LEMMA GoneStep ==
  ASSUME Sound, GoneIsUntracked, [Next]_vars
  PROVE  GoneIsUntracked'
<1>a. registry \in [Registered -> Objects]
  BY SoundMeaning
<1>1. CASE Restore
  <2>1. gone = {} /\ gone' = gone
    BY <1>1 DEF Restore, Sound, Typed
  <2> QED BY <2>1 DEF GoneIsUntracked
<1>2. CASE Crash
  BY <1>2 DEF Crash, GoneIsUntracked
<1>3. ASSUME NEW c \in Clients, RegisterReturn(c) PROVE GoneIsUntracked'
  BY <1>3 DEF RegisterReturn, Put, GoneIsUntracked, Registered
<1>4. ASSUME NEW c \in Clients, ShutdownReturn(c) PROVE GoneIsUntracked'
  BY <1>4 DEF ShutdownReturn, Untracked, Without, Restrict, GoneIsUntracked, Registered
<1>5. ASSUME NEW w \in Workers, Expire(w) PROVE GoneIsUntracked'
  BY <1>5 DEF Expire, Without, Restrict, GoneIsUntracked, Registered
<1>6. ASSUME UNCHANGED <<registry, gone>> PROVE GoneIsUntracked'
  BY <1>6 DEF GoneIsUntracked, Registered
<1>7. ASSUME NEW c \in Clients, Client(c) PROVE GoneIsUntracked'
  BY <1>3, <1>4, <1>6, <1>7
     DEF Client, Shutdown, Register, RegisterFound, ShutdownFound, Save, Fail, Abandon
<1>8. ASSUME NEW w \in Workers, Worker(w) PROVE GoneIsUntracked'
  BY <1>5, <1>6, <1>8 DEF Worker, Heartbeat, Age, HandOut, Touch
<1> QED BY <1>1, <1>2, <1>6, <1>7, <1>8 DEF Next, vars

\* Once a shutdown has been reported the worker is out of the balancer until it
\* registers again, whatever else is in flight for it.
THEOREM GoneStaysGone == Spec => []GoneIsUntracked
<1>1. Init => GoneIsUntracked
  BY DEF Init, GoneIsUntracked
<1>2. Sound /\ GoneIsUntracked /\ [Next]_vars => GoneIsUntracked'
  BY GoneStep
<1> QED BY <1>1, <1>2, AlwaysSound, PTL DEF Spec

LEMMA SilenceStep ==
  ASSUME Sound, SilenceIsExcused, [Next]_vars
  PROVE  SilenceIsExcused'
<1>a. /\ registry \in [Registered -> Objects] /\ objs \in [Objects -> Entities]
      /\ req \in [Clients -> Requests] /\ DOMAIN table \subseteq Workers
      /\ table \in [DOMAIN table -> Profiles] /\ IsInjective(registry)
      /\ \A c \in Clients : Carried(c) /\ req[c] \in Requests
  BY SoundMeaning
\* A request that moves on is no shutdown in progress, or remains one, or is recorded
\* as broken off.
<1>b. ASSUME NEW c \in Clients, NEW r, req' = [req EXCEPT ![c] = r],
             NEW w, <<"shutdown", w>> \in broken => <<"shutdown", w>> \in broken',
             \/ req[c].op # "shutdown" \/ req[c].pc \notin {"saving", "saved"}
             \/ r.op = "shutdown" /\ r.id = req[c].id /\ r.pc \in {"saving", "saved"}
             \/ <<"shutdown", req[c].id>> \in broken',
             Excused(w)
      PROVE  Excused(w)'
  <2>1. CASE <<"shutdown", w>> \in broken
    BY <1>b, <2>1 DEF Excused
  <2>2. CASE ShuttingDown(w)
    <3>1. PICK d \in Clients :
            req[d].op = "shutdown" /\ req[d].id = w /\ req[d].pc \in {"saving", "saved"}
      BY <2>2 DEF ShuttingDown
    <3>2. req'[d] = IF d = c THEN r ELSE req[d]
      BY <1>a, <1>b
    <3> QED BY <1>b, <3>1, <3>2 DEF ShuttingDown, Excused
  <2> QED BY <1>b, <2>1, <2>2 DEF Excused
<1>c. ASSUME UNCHANGED registry, \A w \in Registered : Excused(w) => Excused(w)',
             \A w \in Registered : objs'[registry[w]].heartbeat = "none" =>
                 objs[registry[w]].heartbeat = "none" \/ Excused(w)'
      PROVE  SilenceIsExcused'
  BY <1>c DEF SilenceIsExcused, Registered
<1>1. ASSUME NEW c \in Clients, NEW w \in Workers, NEW p \in Profiles, Register(c, w, p)
      PROVE  SilenceIsExcused'
  <2>1. PICK o \in Objects : \E r : /\ Fresh(o) /\ objs' = [objs EXCEPT ![o] = Connected(p)]
                                    /\ req' = [req EXCEPT ![c] = r]
                                    /\ UNCHANGED <<registry, broken>>
    BY <1>1 DEF Register, Becomes
  <2>2. req[c].op # "shutdown"
    BY <1>1 DEF Register, CanStart, Idle, None
  <2>3. \A x \in Registered : Excused(x) => Excused(x)'
    BY <1>b, <2>1, <2>2
  <2>4. \A x \in Registered : objs'[registry[x]] = objs[registry[x]]
    BY <1>a, <2>1, FreshFacts
  <2> QED BY <1>c, <2>1, <2>3, <2>4
<1>2. ASSUME NEW c \in Clients, NEW w \in Workers, Shutdown(c, w) PROVE SilenceIsExcused'
  <2>1. req[c].op # "shutdown" /\ UNCHANGED <<registry, broken>>
    BY <1>2 DEF Shutdown, CanStart, Idle, None
  <2>2. PICK r : req' = [req EXCEPT ![c] = r]
    BY <1>2 DEF Shutdown, Becomes
  <2>3. \A x \in Registered : Excused(x) => Excused(x)'
    BY <1>b, <2>1, <2>2
  <2>4. CASE w \in Registered
    <3>1. /\ req'[c].op = "shutdown" /\ req'[c].id = w /\ req'[c].pc = "saving"
          /\ objs' = [objs EXCEPT ![registry[w]] = Offline(objs[registry[w]])]
      BY <1>2, <1>a, <2>4 DEF Shutdown, Becomes
    <3>2. Excused(w)'
      BY <3>1 DEF Excused, ShuttingDown
    <3>3. \A x \in Registered : x # w => objs'[registry[x]] = objs[registry[x]]
      BY <1>a, <2>4, <3>1 DEF IsInjective
    <3> QED BY <1>c, <2>1, <2>3, <3>2, <3>3
  <2>5. CASE w \notin Registered
    BY <1>2, <1>c, <2>1, <2>3, <2>5 DEF Shutdown
  <2> QED BY <2>4, <2>5
<1>3. ASSUME NEW c \in Clients, RegisterFound(c) \/ Save(c) PROVE SilenceIsExcused'
  <2>1. PICK r : /\ req' = [req EXCEPT ![c] = r] /\ UNCHANGED <<registry, objs>>
                 /\ \/ req[c].op = "register"
                    \/ r = [req[c] EXCEPT !.pc = "saved"]
    BY <1>3 DEF RegisterFound, Save, Becomes
  <2>2. \/ req[c].op = "register"
        \/ r.op = req[c].op /\ r.id = req[c].id /\ r.pc = "saved"
    BY <1>a, <2>1 DEF Requests
  <2>3. \A w : <<"shutdown", w>> \in broken => <<"shutdown", w>> \in broken'
    BY <1>3 DEF RegisterFound, Save
  <2>4. \A x \in Registered : Excused(x) => Excused(x)'
    BY <1>b, <2>1, <2>2, <2>3
  <2> QED BY <1>c, <2>1, <2>4
<1>4. ASSUME NEW c \in Clients, ShutdownFound(c) PROVE SilenceIsExcused'
  <2>1. PICK r : /\ req' = [req EXCEPT ![c] = r] /\ req[c].pc = "finding"
                 /\ UNCHANGED <<registry, broken>>
    BY <1>4 DEF ShutdownFound, Becomes
  <2>2. \A w \in Registered : objs'[registry[w]] = objs[registry[w]]
    BY <1>4, <1>a, FreshFacts DEF ShutdownFound
  <2>3. \A x \in Registered : Excused(x) => Excused(x)'
    BY <1>b, <2>1
  <2> QED BY <1>c, <2>1, <2>2, <2>3
<1>5. ASSUME NEW c \in Clients, Fail(c) \/ Abandon(c) PROVE SilenceIsExcused'
  <2>1. /\ req' = [req EXCEPT ![c] = Idle] /\ UNCHANGED <<registry, objs>>
        /\ broken' = broken \cup Leaves(req[c])
    BY <1>5 DEF Fail, Abandon, Becomes
  <2>2. req[c].op = "shutdown" /\ req[c].pc \in {"saving", "saved"} =>
          <<"shutdown", req[c].id>> \in broken'
    BY <2>1 DEF Leaves
  <2>3. \A x \in Registered : Excused(x) => Excused(x)'
    BY <1>b, <2>1, <2>2
  <2> QED BY <1>c, <2>1, <2>3
<1>6. ASSUME NEW c \in Clients, RegisterReturn(c) PROVE SilenceIsExcused'
  <2> DEFINE k == req[c].id
             o == req[c].obj
  <2>1. /\ req[c].op = "register" /\ req[c].pc = "saved" /\ registry' = Put(registry, k, o)
        /\ objs' = [objs EXCEPT ![o] = Connected(@.profile)] /\ req' = [req EXCEPT ![c] = Idle]
        /\ broken' = broken \ {<<"shutdown", k>>}
    BY <1>6 DEF RegisterReturn, Becomes
  <2>2. o # None /\ o \in Objects /\ \A w \in Registered : registry[w] = o => w = k
    BY <1>a, <2>1 DEF Carried, Sound, Owned, Requests
  <2> HIDE DEF k, o
  <2>3. /\ Registered' = Registered \cup {k} /\ registry'[k] = o
        /\ \A w \in Registered : w # k => registry'[w] = registry[w]
    BY <2>1 DEF Put, Registered
  <2>4. objs'[o].heartbeat = "fresh" /\ \A x \in Objects : x # o => objs'[x] = objs[x]
    BY <1>a, <2>1, <2>2 DEF Connected
  <2>5. ASSUME NEW w \in Registered, w # k, Excused(w) PROVE Excused(w)'
    BY <1>b, <2>1, <2>5
  <2>6. ASSUME NEW w \in Registered', objs'[registry'[w]].heartbeat = "none" PROVE Excused(w)'
    <3>1. w # k /\ w \in Registered /\ registry'[w] = registry[w] /\ registry[w] # o
      BY <2>2, <2>3, <2>4, <2>6
    <3> QED BY <1>a, <2>4, <2>5, <2>6, <3>1 DEF SilenceIsExcused
  <2> QED BY <2>6 DEF SilenceIsExcused
<1>7. ASSUME NEW c \in Clients, ShutdownReturn(c) PROVE SilenceIsExcused'
  <2> DEFINE k == req[c].id
  <2>1. /\ registry' = Without(registry, k) /\ UNCHANGED <<objs, broken>>
        /\ req' = [req EXCEPT ![c] = Idle]
    BY <1>7 DEF ShutdownReturn, Untracked, Becomes
  <2>2. /\ Registered' = Registered \ {k}
        /\ \A w \in Registered' : registry'[w] = registry[w]
    BY <2>1 DEF Without, Restrict, Registered
  <2>3. ASSUME NEW w \in Registered', Excused(w) PROVE Excused(w)'
    BY <1>a, <2>1, <2>2, <2>3 DEF Excused, ShuttingDown
  <2> QED BY <2>1, <2>2, <2>3 DEF SilenceIsExcused
<1>8. ASSUME NEW w \in Workers, Worker(w) PROVE SilenceIsExcused'
  <2>1. CASE Expire(w)
    <3>1. /\ Registered' = Registered \ {w} /\ UNCHANGED <<objs, req, broken>>
          /\ \A x \in Registered' : registry'[x] = registry[x]
      BY <2>1 DEF Expire, Without, Restrict, Registered
    <3> QED BY <3>1 DEF SilenceIsExcused, Excused, ShuttingDown
  <2>2. CASE Age(w) \/ HandOut(w)
    <3>1. /\ UNCHANGED <<registry, req, broken>>
          /\ \A x \in Objects : objs'[x].heartbeat = "none" => objs[x].heartbeat = "none"
      BY <2>2, TouchType DEF Age, HandOut
    <3> QED BY <1>a, <1>c, <3>1 DEF Excused, ShuttingDown
  <2>3. CASE Heartbeat(w)
    <3>1. /\ w \in Registered /\ UNCHANGED <<registry, req>>
          /\ objs' = [objs EXCEPT ![registry[w]] = [objs[registry[w]] EXCEPT !.heartbeat = "fresh"]]
          /\ broken' = broken \ {<<"shutdown", w>>}
      BY <2>3 DEF Heartbeat, Touch
    <3>2. objs'[registry[w]].heartbeat = "fresh"
      BY <1>a, <3>1 DEF Entities
    <3>3. ASSUME NEW x \in Registered, x # w
          PROVE  objs'[registry[x]] = objs[registry[x]] /\ (Excused(x) => Excused(x)')
      <4>1. registry[x] # registry[w] /\ registry[x] \in Objects
        BY <1>a, <3>1, <3>3 DEF IsInjective, Registered
      <4>2. Excused(x) => Excused(x)'
        BY <3>1, <3>3 DEF Excused, ShuttingDown
      <4> QED BY <1>a, <3>1, <4>1, <4>2
    <3> QED BY <3>1, <3>2, <3>3 DEF SilenceIsExcused, Registered
  <2> QED BY <1>8, <2>1, <2>2, <2>3 DEF Worker
<1>9. CASE Restore
  <2>1. PICK new \in Injection(DOMAIN table, Objects) :
          /\ registry' = new
          /\ objs' = [o \in Objects |->
                        IF \E w \in DOMAIN table : new[w] = o
                        THEN Connected(table[CHOOSE w \in DOMAIN table : new[w] = o])
                        ELSE Unused]
    BY <1>9 DEF Restore
  <2>2. \A w \in DOMAIN table : objs'[new[w]].heartbeat = "fresh"
    BY <2>1 DEF Injection, Connected
  <2> QED BY <2>1, <2>2 DEF SilenceIsExcused, Registered, Injection
<1>10. CASE Crash
  BY <1>10 DEF Crash, SilenceIsExcused, Registered
<1>11. CASE UNCHANGED vars
  BY <1>11 DEF vars, SilenceIsExcused, Registered, Excused, ShuttingDown
<1>12. ASSUME NEW c \in Clients, Client(c) PROVE SilenceIsExcused'
  BY <1>1, <1>2, <1>3, <1>4, <1>5, <1>6, <1>7, <1>12 DEF Client
<1> QED BY <1>8, <1>9, <1>10, <1>11, <1>12 DEF Next

\* No immortal workers: a tracked worker that the monitor passes over for want of a
\* heartbeat is being shut down, or was when that broke off, and has not been heard of
\* since; whatever requests fail, are cut off or cross each other.
THEOREM NobodyIsImmortal == Spec => []TrackedWorkersCanExpire
<1>1. Init => SilenceIsExcused
  BY DEF Init, SilenceIsExcused, Registered
<1>2. Sound /\ SilenceIsExcused /\ [Next]_vars => SilenceIsExcused'
  BY SilenceStep
<1>3. SilenceIsExcused => TrackedWorkersCanExpire
  BY DEF SilenceIsExcused, TrackedWorkersCanExpire, Excused, ShuttingDown, Working
<1> QED BY <1>1, <1>2, <1>3, AlwaysSound, PTL DEF Spec

-----------------------------------------------------------------------------
(* Workers that send one request at a time.                                 *)

LEMMA RequestStarts ==
  ASSUME Sound, NEW c \in Clients, NEW w \in Workers,
         Shutdown(c, w) \/ \E p \in Profiles : Register(c, w, p)
  PROVE  /\ req'[c].id = w /\ req'[c].pc \in {"finding", "saving"}
         /\ \A d \in Clients : d # c => req'[d] = req[d]
<1>a. req \in [Clients -> Requests]
  BY SoundMeaning
<1>1. ASSUME NEW p \in Profiles, Register(c, w, p)
      PROVE  req'[c].id = w /\ req'[c].pc \in {"finding", "saving"}
  BY <1>a, <1>1 DEF Register, Becomes
<1>2. ASSUME Shutdown(c, w), w \in Registered PROVE req'[c].id = w /\ req'[c].pc = "saving"
  BY <1>a, <1>2 DEF Shutdown, Becomes
<1>3. ASSUME Shutdown(c, w), w \notin Registered PROVE req'[c].id = w /\ req'[c].pc = "finding"
  BY <1>a, <1>3 DEF Shutdown, Becomes, Idle
<1>4. \A d \in Clients : d # c => req'[d] = req[d]
  BY <1>a DEF Register, Shutdown, Becomes
<1> QED BY <1>1, <1>2, <1>3, <1>4

\* Only the start of a request brings an id in.
LEMMA OneEachStep ==
  ASSUME Serial, Sound, OneEach, [Next]_vars
  PROVE  OneEach'
<1>a. /\ req \in [Clients -> Requests] /\ \A c \in Clients : Carried(c) /\ req[c] \in Requests
      /\ Idle.pc = "idle" /\ Idle.id = None /\ None \notin Workers
  BY SoundMeaning, NoneAssumption DEF Idle
<1>1. ASSUME NEW c \in Clients, NEW w \in Workers, ~Working(w),
             \A d \in Clients : d # c => req'[d] = req[d], req'[c].id = w
      PROVE  OneEach'
  BY <1>a, <1>1 DEF OneEach, Working
<1>2. ASSUME NEW c \in Clients, req[c].pc # "idle",
             \A d \in Clients : d # c => req'[d] = req[d],
             req'[c].id = req[c].id \/ req'[c] = Idle
      PROVE  OneEach'
  <2>2. ASSUME NEW d \in Clients, NEW e \in Clients, d # e, req'[d].pc # "idle"
        PROVE  req'[e].id # req'[d].id
    <3>1. req[d].pc # "idle" /\ req'[d].id = req[d].id /\ req[d].id \in Workers
      BY <1>a, <1>2, <2>2 DEF Carried
    <3>2. req'[e].id = req[e].id \/ req'[e].id = None
      BY <1>a, <1>2
    <3> QED BY <1>a, <2>2, <3>1, <3>2 DEF OneEach
  <2> QED BY <2>2 DEF OneEach
<1>3. ASSUME NEW c \in Clients, NEW w \in Workers,
             Shutdown(c, w) \/ \E p \in Profiles : Register(c, w, p)
      PROVE  OneEach'
  <2>1. ~Working(w)
    BY <1>3 DEF Register, Shutdown, CanStart
  <2> QED BY <1>1, <1>3, <2>1, RequestStarts
<1>5. ASSUME NEW c \in Clients,
             \/ RegisterFound(c) \/ ShutdownFound(c) \/ Save(c) \/ Fail(c) \/ Abandon(c)
             \/ RegisterReturn(c) \/ ShutdownReturn(c)
      PROVE  OneEach'
  <2>1. req[c].pc # "idle"
    BY <1>5, <1>a
       DEF RegisterFound, ShutdownFound, Save, Fail, Abandon, RegisterReturn, ShutdownReturn
  <2>2. \A d \in Clients : d # c => req'[d] = req[d]
    BY <1>5, <1>a
       DEF RegisterFound, ShutdownFound, Save, Fail, Abandon, RegisterReturn, ShutdownReturn,
           Becomes
  <2>3. req'[c].id = req[c].id \/ req'[c] = Idle
    <3>1. CASE RegisterFound(c)
      BY <1>a, <3>1 DEF RegisterFound, Becomes, Requests
    <3>2. CASE ShutdownFound(c)
      <4>1. ASSUME NEW o, req' = [req EXCEPT ![c] = [req[c] EXCEPT !.pc = "saving", !.obj = o]]
            PROVE  req'[c].id = req[c].id
        BY <1>a, <4>1 DEF Requests
      <4>2. ASSUME Becomes(c, Idle) PROVE req'[c] = Idle
        BY <1>a, <4>2 DEF Becomes
      <4> QED BY <3>2, <4>1, <4>2 DEF ShutdownFound, Becomes
    <3>3. CASE Save(c)
      BY <1>a, <3>3 DEF Save, Becomes, Requests
    <3>4. CASE Fail(c) \/ Abandon(c) \/ RegisterReturn(c) \/ ShutdownReturn(c)
      BY <1>a, <3>4 DEF Fail, Abandon, RegisterReturn, ShutdownReturn, Becomes
    <3> QED BY <1>5, <3>1, <3>2, <3>3, <3>4
  <2> QED BY <1>2, <2>1, <2>2, <2>3
<1>6. CASE Crash
  BY <1>6, <1>a DEF Crash, OneEach
<1>7. ASSUME UNCHANGED req PROVE OneEach'
  BY <1>7 DEF OneEach
<1>8. ASSUME NEW c \in Clients, Client(c) PROVE OneEach'
  BY <1>3, <1>5, <1>8 DEF Client
<1>9. ASSUME NEW w \in Workers, Worker(w) PROVE OneEach'
  BY <1>7, <1>9 DEF Worker, Heartbeat, Age, HandOut, Expire, Touch
<1> QED BY <1>6, <1>7, <1>8, <1>9 DEF Next, Restore, vars


\* A shutdown keeps its entity: only the end of a registration would register another.
LEMMA HeldStep ==
  ASSUME Serial, Sound, OneEach, Held, [Next]_vars
  PROVE  Held'
<1>a. /\ req \in [Clients -> Requests] /\ registry \in [Registered -> Objects]
      /\ \A c \in Clients : Carried(c) /\ req[c] \in Requests
      /\ Idle.op = None /\ None \notin Objects
  BY SoundMeaning, NoneAssumption DEF Idle
\* The registry shrinks or stays, and no shutdown begins or takes an entity.
<1>b. ASSUME Registered' \subseteq Registered, \A w \in Registered' : registry'[w] = registry[w],
             \A d \in Clients : req'[d].op = "shutdown" =>
               req[d].op = "shutdown" /\ req'[d].id = req[d].id /\ req'[d].obj = req[d].obj
      PROVE  Held'
  BY <1>b DEF Held
<1>1. ASSUME NEW c \in Clients, NEW w \in Workers, NEW p \in Profiles, Register(c, w, p) PROVE Held'
  <2>1. req'[c].op = "register" /\ \A d \in Clients : d # c => req'[d] = req[d]
    BY <1>1, <1>a DEF Register, Becomes
  <2> QED BY <1>1, <1>b, <2>1 DEF Register, Registered
<1>2. ASSUME NEW c \in Clients, NEW w \in Workers, Shutdown(c, w) PROVE Held'
  <2>1. registry' = registry /\ \A d \in Clients : d # c => req'[d] = req[d]
    BY <1>2, <1>a DEF Shutdown, Becomes
  <2>2. w \in Registered => req'[c].id = w /\ req'[c].obj = registry[w]
    BY <1>2, <1>a DEF Shutdown, Becomes
  <2>3. req'[c].id = w
    BY <1>2, RequestStarts
  <2> QED BY <2>1, <2>2, <2>3 DEF Held, Registered
<1>3. ASSUME NEW c \in Clients, RegisterFound(c) \/ Save(c) PROVE Held'
  <2>1. registry' = registry /\ \A d \in Clients : d # c => req'[d] = req[d]
    BY <1>3, <1>a DEF RegisterFound, Save, Becomes
  <2>2. req'[c].op = req[c].op /\ req'[c].id = req[c].id /\ req'[c].obj = req[c].obj
    <3>1. CASE RegisterFound(c)
      BY <1>a, <3>1 DEF RegisterFound, Becomes, Requests
    <3>2. CASE Save(c)
      BY <1>a, <3>2 DEF Save, Becomes, Requests
    <3> QED BY <1>3, <3>1, <3>2
  <2> QED BY <1>b, <2>1, <2>2 DEF Registered
<1>4. ASSUME NEW c \in Clients, ShutdownFound(c) PROVE Held'
  <2>1. req[c].op = "shutdown" /\ registry' = registry /\ req[c].obj = None
    BY <1>4, <1>a DEF ShutdownFound, Carried
  <2>2. req[c].id \notin Registered
    BY <1>a, <2>1 DEF Held
  <2>3. PICK r : req' = [req EXCEPT ![c] = r] /\ (r.op = "shutdown" => r.id = req[c].id)
    <3>1. ASSUME NEW o PROVE [req[c] EXCEPT !.pc = "saving", !.obj = o].id = req[c].id
      BY <1>a DEF Requests
    <3> QED BY <1>4, <1>a, <3>1 DEF ShutdownFound, Becomes, None
  <2>4. \A d \in Clients : req'[d] = IF d = c THEN r ELSE req[d]
    BY <1>a, <2>3
  <2> QED BY <2>1, <2>2, <2>3, <2>4 DEF Held, Registered
<1>5. ASSUME NEW c \in Clients, Fail(c) \/ Abandon(c) PROVE Held'
  <2>1. registry' = registry /\ \A d \in Clients : req'[d] = IF d = c THEN Idle ELSE req[d]
    BY <1>5, <1>a DEF Fail, Abandon, Becomes
  <2> QED BY <1>a, <1>b, <2>1 DEF Registered, None
<1>6. ASSUME NEW c \in Clients, RegisterReturn(c) PROVE Held'
  <2>1. /\ req[c].op = "register" /\ req[c].pc = "saved"
        /\ registry' = Put(registry, req[c].id, req[c].obj)
        /\ \A d \in Clients : req'[d] = IF d = c THEN Idle ELSE req[d]
    BY <1>6, <1>a DEF RegisterReturn, Becomes
  <2>2. ASSUME NEW d \in Clients, req'[d].op = "shutdown", req'[d].id \in Registered'
        PROVE  registry'[req'[d].id] = req'[d].obj
    <3>1. d # c /\ req'[d] = req[d] /\ req[d].id # req[c].id
      BY <1>a, <2>1, <2>2 DEF OneEach, None
    <3>2. req[d].id \in Registered /\ registry'[req[d].id] = registry[req[d].id]
      BY <2>1, <2>2, <3>1 DEF Put, Registered
    <3> QED BY <2>2, <3>1, <3>2 DEF Held
  <2> QED BY <2>2 DEF Held
<1>7. ASSUME NEW c \in Clients, ShutdownReturn(c) PROVE Held'
  <2>1. /\ Registered' \subseteq Registered /\ \A w \in Registered' : registry'[w] = registry[w]
        /\ \A d \in Clients : req'[d] = IF d = c THEN Idle ELSE req[d]
    BY <1>7, <1>a DEF ShutdownReturn, Becomes, Untracked, Without, Restrict, Registered
  <2> QED BY <1>a, <1>b, <2>1 DEF None
<1>8. ASSUME NEW w \in Workers, Worker(w) PROVE Held'
  <2>1. /\ Registered' \subseteq Registered /\ \A x \in Registered' : registry'[x] = registry[x]
        /\ req' = req
    BY <1>8 DEF Worker, Heartbeat, Age, HandOut, Touch, Expire, Without, Restrict, Registered
  <2> QED BY <1>b, <2>1
<1>9. CASE Restore \/ Crash
  <2>1. \A c \in Clients : req'[c] = Idle
    BY <1>9, <1>a DEF Restore, Crash, Carried, Sound, Typed
  <2> QED BY <1>a, <2>1 DEF Held, None
<1>10. CASE UNCHANGED vars
  BY <1>10 DEF vars, Held, Registered
<1>11. ASSUME NEW c \in Clients, Client(c) PROVE Held'
  BY <1>1, <1>2, <1>3, <1>4, <1>5, <1>6, <1>7, <1>11 DEF Client
<1> QED BY <1>8, <1>9, <1>10, <1>11 DEF Next

\* A commit clears what an earlier registration of the worker left behind, and no
\* other request of that worker can break off beside it.
LEMMA WholeStep ==
  ASSUME Sound, OneEach, Whole, [Next]_vars
  PROVE  Whole'
<1>a. /\ req \in [Clients -> Requests] /\ \A c \in Clients : Carried(c) /\ req[c] \in Requests
      /\ Idle.op = None
  BY SoundMeaning DEF Idle
<1>b. ASSUME \A d \in Clients : Committed(d)' => Committed(d) /\ req'[d].id = req[d].id,
             broken' \subseteq broken
      PROVE  Whole'
  BY <1>b DEF Whole
<1>1. ASSUME NEW c \in Clients, Save(c) PROVE Whole'
  <2>1. /\ \A d \in Clients : d # c => req'[d] = req[d]
        /\ req'[c].id = req[c].id /\ broken' = broken \ {<<"register", req[c].id>>}
    BY <1>1, <1>a DEF Save, Becomes, Requests
  <2> QED BY <2>1 DEF Whole, Committed
<1>2. ASSUME NEW c \in Clients, Fail(c) \/ Abandon(c) PROVE Whole'
  <2>1. /\ req[c].pc # "idle" /\ \A d \in Clients : req'[d] = IF d = c THEN Idle ELSE req[d]
        /\ broken' = broken \cup Leaves(req[c])
    BY <1>2, <1>a DEF Fail, Abandon, Becomes
  <2>2. ASSUME NEW d \in Clients, Committed(d)' PROVE <<"register", req'[d].id>> \notin broken'
    <3>1. d # c /\ req'[d] = req[d] /\ Committed(d) /\ req[d].id # req[c].id
      BY <1>a, <2>1, <2>2 DEF Committed, OneEach, None
    <3>2. <<"register", req[d].id>> \notin Leaves(req[c])
      BY <3>1 DEF Leaves
    <3> QED BY <2>1, <3>1, <3>2 DEF Whole
  <2> QED BY <2>2 DEF Whole
<1>3. ASSUME NEW c \in Clients, Client(c), ~Save(c), ~Fail(c), ~Abandon(c) PROVE Whole'
  <2>1. broken' \subseteq broken /\ \A d \in Clients : d # c => req'[d] = req[d]
    BY <1>3, <1>a DEF Client, Shutdown, Register, RegisterFound, ShutdownFound, RegisterReturn,
                      ShutdownReturn, Becomes
  <2>2. ~Committed(c)'
    <3>1. ASSUME NEW w \in Workers, Shutdown(c, w) \/ \E p \in Profiles : Register(c, w, p)
          PROVE  ~Committed(c)'
      BY <3>1, RequestStarts DEF Committed
    <3>2. CASE RegisterFound(c)
      BY <1>a, <3>2 DEF RegisterFound, Becomes, Committed, Requests
    <3>3. CASE ShutdownFound(c)
      <4>1. ASSUME NEW o PROVE [req[c] EXCEPT !.pc = "saving", !.obj = o].pc = "saving"
        BY <1>a DEF Requests
      <4> QED BY <1>a, <3>3, <4>1 DEF ShutdownFound, Becomes, Committed, None
    <3>4. CASE RegisterReturn(c) \/ ShutdownReturn(c)
      BY <1>a, <3>4 DEF RegisterReturn, ShutdownReturn, Becomes, Committed, None
    <3> QED BY <1>3, <3>1, <3>2, <3>3, <3>4 DEF Client
  <2> QED BY <1>b, <2>1, <2>2 DEF Committed
<1>4. ASSUME NEW w \in Workers, Worker(w) PROVE Whole'
  <2>1. req' = req /\ broken' \subseteq broken
    BY <1>4 DEF Worker, Heartbeat, Age, HandOut, Touch, Expire
  <2> QED BY <1>b, <2>1 DEF Committed
<1>5. CASE Restore \/ UNCHANGED vars
  <2>1. req' = req /\ broken' = broken
    BY <1>5 DEF Restore, vars
  <2> QED BY <1>b, <2>1 DEF Committed
<1>6. CASE Crash
  BY <1>6 DEF Crash, Whole
<1> QED BY <1>1, <1>2, <1>3, <1>4, <1>5, <1>6 DEF Next

\* What a registration that has committed is.
LEMMA CommittedFacts ==
  ASSUME Sound, NEW c \in Clients, Committed(c)
  PROVE  /\ req[c].pc # "idle" /\ req[c].id \in Workers
         /\ req[c].obj \in Objects /\ req[c].obj # None
BY SoundMeaning, NoneAssumption DEF Committed, Carried, Requests

\* A turn of c that writes nothing, and ends a registration only by breaking it off.
LEMMA AgreedRequest ==
  ASSUME Sound, Written, Tracked, NEW c \in Clients,
         \A d \in Clients : d # c => req'[d] = req[d],
         UNCHANGED <<table, registry>>, broken \subseteq broken',
         \A x \in Objects : objs'[x].profile # objs[x].profile => Fresh(x),
         Committed(c) => <<"register", req[c].id>> \in broken',
         ~Committed(c)'
  PROVE  Written' /\ Tracked'
<1>1. ASSUME NEW d \in Clients, Committed(d)' PROVE HasRow(d)'
  <2>1. Committed(d) /\ req'[d] = req[d]
    BY <1>1 DEF Committed
  <2>2. req[d].obj \in Objects /\ objs'[req[d].obj].profile = objs[req[d].obj].profile
    BY <2>1, CommittedFacts, FreshFacts
  <2> QED BY <2>1, <2>2 DEF Written, HasRow
<1>2. ASSUME NEW w, Differs(w) PROVE Differs(w)'
  BY <1>2 DEF Differs, Committed
<1>3. \A w \in Registered : objs'[registry[w]].profile = objs[registry[w]].profile
  BY SoundMeaning, FreshFacts
<1> QED BY <1>1, <1>2, <1>3 DEF Written, Tracked, Registered

LEMMA AgreedClient ==
  ASSUME Sound, Agreed, NEW c \in Clients,
         \/ \E w \in Workers : Shutdown(c, w) \/ \E p \in Profiles : Register(c, w, p)
         \/ RegisterFound(c) \/ ShutdownFound(c) \/ Fail(c) \/ Abandon(c)
  PROVE  Written' /\ Tracked'
<1>a. /\ req \in [Clients -> Requests] /\ req[c] \in Requests
      /\ objs \in [Objects -> Entities] /\ registry \in [Registered -> Objects]
      /\ Written /\ Tracked /\ Idle.op = None
  BY SoundMeaning DEF Agreed, Idle
<1>1. ASSUME NEW w \in Workers, NEW p \in Profiles, Register(c, w, p) PROVE Written' /\ Tracked'
  <2>1. PICK o \in Objects : Fresh(o) /\ objs' = [objs EXCEPT ![o] = Connected(p)]
    BY <1>1 DEF Register
  <2>2. /\ \A d \in Clients : d # c => req'[d] = req[d]
        /\ ~Committed(c)' /\ UNCHANGED <<table, registry, broken>> /\ ~Committed(c)
    BY <1>1, <1>a DEF Register, Becomes, CanStart, Committed, None
  <2>3. \A x \in Objects : x # o => objs'[x] = objs[x]
    BY <1>a, <2>1
  <2> QED BY <1>a, <2>1, <2>2, <2>3, AgreedRequest
<1>2. ASSUME NEW w \in Workers, Shutdown(c, w) PROVE Written' /\ Tracked'
  <2>1. /\ \A d \in Clients : d # c => req'[d] = req[d]
        /\ UNCHANGED <<table, registry, broken>> /\ ~Committed(c)
    BY <1>2, <1>a DEF Shutdown, Becomes, CanStart, Committed, None
  <2>2. ~Committed(c)'
    BY <1>2, RequestStarts DEF Committed
  <2>3. \A x \in Objects : objs'[x].profile = objs[x].profile
    <3>1. CASE w \in Registered
      <4>1. objs' = [objs EXCEPT ![registry[w]] = Offline(objs[registry[w]])]
        BY <1>2, <3>1 DEF Shutdown
      <4> QED BY <1>a, <3>1, <4>1, OfflineType
    <3>2. CASE w \notin Registered
      BY <1>2, <3>2 DEF Shutdown
    <3> QED BY <3>1, <3>2
  <2> QED BY <1>a, <2>1, <2>2, <2>3, AgreedRequest
<1>3. CASE RegisterFound(c)
  <2>1. /\ \A d \in Clients : d # c => req'[d] = req[d]
        /\ req'[c].pc = "saving" /\ req[c].pc = "finding"
        /\ UNCHANGED <<table, registry, objs, broken>>
    BY <1>3, <1>a DEF RegisterFound, Becomes, Requests
  <2> QED BY <1>a, <2>1, AgreedRequest DEF Committed
<1>4. CASE ShutdownFound(c)
  <2>1. /\ \A d \in Clients : d # c => req'[d] = req[d]
        /\ req[c].op = "shutdown" /\ UNCHANGED <<table, registry, broken>>
    BY <1>4, <1>a DEF ShutdownFound, Becomes
  <2>2. req'[c].op # "register"
    <3>1. ASSUME NEW o PROVE [req[c] EXCEPT !.pc = "saving", !.obj = o].op = "shutdown"
      BY <1>a, <2>1 DEF Requests
    <3> QED BY <1>4, <1>a, <3>1 DEF ShutdownFound, Becomes, None
  <2>3. \A x \in Objects : objs'[x].profile # objs[x].profile => Fresh(x)
    BY <1>4, <1>a DEF ShutdownFound
  <2> QED BY <1>a, <2>1, <2>2, <2>3, AgreedRequest DEF Committed
<1>5. CASE Fail(c) \/ Abandon(c)
  <2>1. /\ \A d \in Clients : d # c => req'[d] = req[d]
        /\ req'[c] = Idle /\ UNCHANGED <<table, registry, objs>>
        /\ broken' = broken \cup Leaves(req[c])
    BY <1>5, <1>a DEF Fail, Abandon, Becomes
  <2>2. Committed(c) => <<"register", req[c].id>> \in broken'
    BY <2>1 DEF Committed, Leaves
  <2>3. ~Committed(c)'
    BY <1>a, <2>1 DEF Committed, None
  <2> QED BY <1>a, <2>1, <2>2, <2>3, AgreedRequest
<1> QED BY <1>1, <1>2, <1>3, <1>4, <1>5

\* The commit: the one step that changes a row.
LEMMA AgreedSave ==
  ASSUME Sound, Agreed, NEW c \in Clients, Save(c)
  PROVE  Written' /\ Tracked'
<1> DEFINE k == req[c].id
           p == objs[req[c].obj].profile
<1>a. /\ req \in [Clients -> Requests] /\ Carried(c) /\ req[c] \in Requests
      /\ OneEach /\ Written /\ Held /\ Tracked
  BY SoundMeaning DEF Agreed
<1>1. /\ req[c].pc = "saving" /\ table' = Put(table, k, p)
      /\ req' = [req EXCEPT ![c] = [req[c] EXCEPT !.pc = "saved"]]
      /\ broken' = broken \ {<<"register", k>>} /\ UNCHANGED <<registry, objs>>
  BY DEF Save, Row, Becomes
<1>2. /\ \A d \in Clients : d # c => req'[d] = req[d] /\ req[d].id # k
      /\ req'[c].id = k /\ req'[c].obj = req[c].obj /\ req'[c].op = req[c].op
      /\ req'[c].pc = "saved"
  BY <1>1, <1>a DEF OneEach, Requests
<1>3. /\ DOMAIN table' = DOMAIN table \cup {k} /\ table'[k] = p
      /\ \A w \in DOMAIN table : w # k => table'[w] = table[w]
  BY <1>1 DEF Put
<1>4. HasRow(c)'
  BY <1>1, <1>2, <1>3 DEF HasRow
<1>5. ASSUME NEW d \in Clients, d # c, Committed(d)' PROVE HasRow(d)'
  <2>1. Committed(d) /\ req'[d] = req[d] /\ req[d].id # k
    BY <1>2, <1>5 DEF Committed
  <2> QED BY <1>a, <1>1, <1>3, <2>1 DEF Written, HasRow
<1>6. ASSUME NEW w \in Registered
      PROVE  w \in DOMAIN table' /\ (objs'[registry'[w]].profile = table'[w] \/ Differs(w)')
  <2>1. CASE w # k
    <3>1. Differs(w) => Differs(w)'
      <4>1. ASSUME NEW d \in Clients, Committed(d), req[d].id = w PROVE Differs(w)'
        BY <1>1, <1>2, <2>1, <4>1 DEF Differs, Committed
      <4>2. <<"register", w>> \in broken => <<"register", w>> \in broken'
        BY <1>1, <2>1
      <4> QED BY <4>1, <4>2 DEF Differs
    <3> QED BY <1>a, <1>1, <1>3, <2>1, <3>1 DEF Tracked
  <2>2. CASE w = k /\ req[c].op = "register"
    BY <1>2, <1>3, <2>2 DEF Differs, Committed
  <2>3. CASE w = k /\ req[c].op # "register"
    <3>1. req[c].op = "shutdown"
      BY <1>a, <1>1, <2>3 DEF Carried, Requests
    <3>2. registry[w] = req[c].obj
      BY <1>a, <1>6, <2>3, <3>1 DEF Held
    <3> QED BY <1>1, <1>3, <2>3, <3>2
  <2> QED BY <2>1, <2>2, <2>3
<1> QED BY <1>1, <1>4, <1>5, <1>6 DEF Written, Tracked, Registered

LEMMA AgreedReturn ==
  ASSUME Sound, Agreed, NEW c \in Clients, RegisterReturn(c) \/ ShutdownReturn(c)
  PROVE  Written' /\ Tracked'
<1> DEFINE k == req[c].id
           o == req[c].obj
<1>a. /\ req \in [Clients -> Requests] /\ objs \in [Objects -> Entities]
      /\ registry \in [Registered -> Objects]
      /\ req' = [req EXCEPT ![c] = Idle] /\ UNCHANGED table /\ Written /\ Tracked
  BY SoundMeaning DEF Agreed, RegisterReturn, ShutdownReturn, Becomes
<1>b. RegisterReturn(c) => Committed(c) /\ HasRow(c) /\ o \in Objects
  BY <1>a, CommittedFacts DEF RegisterReturn, Committed, Written
<1>c. ~Committed(c)' /\ \A d \in Clients : d # c => req'[d] = req[d]
  BY <1>a DEF Committed, Idle, None
<1>1. \A x \in Objects : objs'[x].profile = objs[x].profile
  <2>1. CASE RegisterReturn(c)
    <3>1. objs' = [objs EXCEPT ![o] = Connected(objs[o].profile)]
      BY <2>1 DEF RegisterReturn
    <3>2. Connected(objs[o].profile).profile = objs[o].profile
      BY DEF Connected
    <3> QED BY <1>a, <1>b, <2>1, <3>1, <3>2
  <2>2. CASE ShutdownReturn(c)
    BY <2>2 DEF ShutdownReturn
  <2> QED BY <2>1, <2>2
<1>2. ASSUME NEW d \in Clients, Committed(d)' PROVE HasRow(d)'
  <2>1. d # c /\ req'[d] = req[d] /\ Committed(d)
    BY <1>c, <1>2 DEF Committed
  <2>2. req[d].obj \in Objects
    BY <2>1, CommittedFacts
  <2> QED BY <1>a, <1>1, <2>1, <2>2 DEF Written, HasRow
<1>d. \A w : <<"register", w>> \in broken => <<"register", w>> \in broken'
  BY DEF RegisterReturn, ShutdownReturn
<1>3. ASSUME NEW w, w # k \/ ~Committed(c), Differs(w) PROVE Differs(w)'
  BY <1>c, <1>d, <1>3 DEF Differs, Committed
<1>4. ASSUME NEW w \in Registered'
      PROVE  w \in DOMAIN table /\ (objs'[registry'[w]].profile = table[w] \/ Differs(w)')
  <2>1. CASE RegisterReturn(c)
    <3>1. registry' = Put(registry, k, o)
      BY <2>1 DEF RegisterReturn
    <3>2. CASE w = k
      BY <1>b, <1>1, <2>1, <3>1, <3>2 DEF Put, HasRow
    <3>3. CASE w # k
      <4>1. w \in Registered /\ registry'[w] = registry[w] /\ registry[w] \in Objects
        BY <1>a, <1>4, <3>1, <3>3 DEF Put, Registered
      <4> QED BY <1>a, <1>1, <1>3, <3>3, <4>1 DEF Tracked
    <3> QED BY <3>2, <3>3
  <2>2. CASE ShutdownReturn(c)
    <3>1. registry' = Without(registry, k) /\ ~Committed(c)
      BY <2>2 DEF ShutdownReturn, Untracked, Committed
    <3>2. w \in Registered /\ registry'[w] = registry[w] /\ registry[w] \in Objects
      BY <1>a, <1>4, <3>1 DEF Without, Restrict, Registered
    <3> QED BY <1>a, <1>1, <1>3, <3>1, <3>2 DEF Tracked
  <2> QED BY <2>1, <2>2
<1> QED BY <1>a, <1>2, <1>4 DEF Written, Tracked

LEMMA AgreedStep ==
  ASSUME Serial, Sound, Agreed, [Next]_vars
  PROVE  Agreed'
<1>a. /\ req \in [Clients -> Requests] /\ registry \in [Registered -> Objects]
      /\ Written /\ Tracked /\ OneEach' /\ Whole' /\ Held'
  BY SoundMeaning, OneEachStep, WholeStep, HeldStep DEF Agreed
<1> SUFFICES Written' /\ Tracked'
  BY <1>a DEF Agreed
<1>b. \A c \in Clients : Committed(c) => req[c].obj \in Objects
  BY CommittedFacts
<1>1. ASSUME UNCHANGED <<table, registry, req>>,
             \A w : <<"register", w>> \in broken => <<"register", w>> \in broken',
             \A x \in Objects : objs'[x].profile = objs[x].profile
      PROVE  Written' /\ Tracked'
  BY <1>a, <1>b, <1>1 DEF Written, Committed, HasRow, Tracked, Differs, Registered
<1>2. CASE Restore
  <2>1. PICK new \in Injection(DOMAIN table, Objects) :
          /\ registry' = new
          /\ objs' = [o \in Objects |->
                        IF \E w \in DOMAIN table : new[w] = o
                        THEN Connected(table[CHOOSE w \in DOMAIN table : new[w] = o])
                        ELSE Unused]
    BY <1>2 DEF Restore
  <2>2. new \in [DOMAIN table -> Objects] /\ IsInjective(new)
    BY DEF Injection
  <2>3. ASSUME NEW w \in DOMAIN table PROVE objs'[new[w]].profile = table[w]
    <3>1. (CHOOSE x \in DOMAIN table : new[x] = new[w]) = w
      BY <2>2, <2>3 DEF IsInjective
    <3> QED BY <2>1, <2>2, <3>1 DEF Connected
  <2>4. table' = table /\ \A c \in Clients : ~Committed(c)'
    BY <1>2, SoundMeaning DEF Restore, Carried, Committed
  <2>5. Registered' = DOMAIN table
    BY <2>1, <2>2 DEF Registered
  <2>6. Tracked'
    <3> SUFFICES ASSUME NEW w \in DOMAIN table PROVE objs'[registry'[w]].profile = table'[w]
      BY <2>4, <2>5 DEF Tracked
    <3> QED BY <2>1, <2>3, <2>4
  <2>7. Written'
    BY <2>4 DEF Written
  <2> QED BY <2>6, <2>7
<1>3. CASE Crash
  <2>1. Registered' = {} /\ \A c \in Clients : ~Committed(c)'
    BY <1>3 DEF Crash, Registered, Committed, Idle
  <2> QED BY <2>1 DEF Written, Tracked
<1>4. ASSUME NEW w \in Workers, Worker(w) PROVE Written' /\ Tracked'
  <2>1. CASE Expire(w)
    <3>1. /\ UNCHANGED <<table, objs, req, broken>> /\ Registered' \subseteq Registered
          /\ \A x \in Registered' : registry'[x] = registry[x]
      BY <2>1 DEF Expire, Without, Restrict, Registered
    <3> QED BY <1>a, <3>1 DEF Written, Committed, HasRow, Tracked, Differs
  <2>2. CASE Heartbeat(w) \/ Age(w) \/ HandOut(w)
    BY <1>1, <2>2, TouchType DEF Heartbeat, Age, HandOut
  <2> QED BY <1>4, <2>1, <2>2 DEF Worker
<1>5. ASSUME NEW c \in Clients, Client(c) PROVE Written' /\ Tracked'
  BY <1>5, AgreedClient, AgreedSave, AgreedReturn DEF Client
<1>6. CASE UNCHANGED vars
  BY <1>1, <1>6 DEF vars
<1> QED BY <1>2, <1>3, <1>4, <1>5, <1>6 DEF Next

LEMMA AgreedInit == Init => Agreed
<1> SUFFICES ASSUME Init PROVE Agreed
  OBVIOUS
<1>1. Registered = {} /\ \A c \in Clients : req[c].pc = "idle"
  BY DEF Init, Registered, Idle
<1> QED BY <1>1 DEF Agreed, OneEach, Written, Whole, Committed, Held, Tracked

\* When a worker has one request in flight at a time, what the balancer schedules by
\* is what a restart would restore, but for a registration that was cut off between
\* its commit and the balancer, until the row is written again: no other failure,
\* crash, expiry or shutdown makes them differ.
THEOREM BalancerAgreesWithTable ==
  ASSUME Serial
  PROVE  Spec => []RegistryAgreesWithTable
<1>1. Sound /\ Agreed /\ [Next]_vars => Agreed'
  BY AgreedStep
<1>2. Agreed => RegistryAgreesWithTable
  BY DEF Agreed, Tracked, RegistryAgreesWithTable, Differs, Working
<1> QED BY AgreedInit, <1>1, <1>2, AlwaysSound, PTL DEF Spec


-----------------------------------------------------------------------------
(* The service as the workers see it.                                       *)

LEMMA MasterStep == MasterNext => [Next]_vars
<1> SUFFICES ASSUME MasterNext PROVE [Next]_vars
  OBVIOUS
<1>1. CASE Start
  BY <1>1 DEF Start, Next
<1>2. CASE Crash
  BY <1>2 DEF Next
<1>3. ASSUME NEW c \in Clients, NEW w \in Workers, RegisterWorker(c, w) \/ ShutdownWorker(c, w)
      PROVE  Client(c)
  BY <1>3 DEF RegisterWorker, Announces, ShutdownWorker, Client
<1>4. ASSUME NEW c \in Clients, Admits(c) \/ Works(c) PROVE Client(c)
  BY <1>4 DEF Admits, Works, Client
<1>5. ASSUME NEW w \in Workers, SendHeartbeat(w) \/ Age(w) \/ HandOut(w) \/ Expire(w)
      PROVE  Worker(w) \/ UNCHANGED vars
  BY <1>5 DEF SendHeartbeat, Worker
<1> QED BY <1>1, <1>2, <1>3, <1>4, <1>5 DEF MasterNext, Next

\* The servicers do to the workers only what the service can do without them.
THEOREM MasterImplementsService == MasterSpec => Spec
<1>1. MasterInit => Init
  BY DEF MasterInit
<1>2. [MasterNext]_<<vars, knowledge>> => [Next]_vars
  BY MasterStep
<1> QED BY <1>1, <1>2, PTL DEF MasterSpec, Spec

\* A turn of c changes the row and the registration of its own worker only.
LEMMA OwnWorkerOnly ==
  ASSUME Sound, NEW c \in Clients, Works(c) \/ RegisterReturn(c), NEW w \in Workers, w # req[c].id
  PROVE  /\ w \in DOMAIN table => (w \in DOMAIN table' /\ table'[w] = table[w])
         /\ w \in Registered => w \in Registered'
         /\ Working(w)' => Working(w)
         /\ up' = up
         /\ <<"register", w>> \in broken' => <<"register", w>> \in broken
<1>a. /\ req \in [Clients -> Requests] /\ req[c] \in Requests
      /\ Idle.id # w
  BY SoundMeaning, NoneAssumption DEF Idle
<1>1. \/ UNCHANGED table
      \/ \E p : table' = Put(table, req[c].id, p)
  BY DEF Works, RegisterFound, ShutdownFound, Save, Fail, Abandon, ShutdownReturn, RegisterReturn
<1>2. \/ UNCHANGED registry
      \/ \E o : registry' = Put(registry, req[c].id, o)
      \/ registry' = Without(registry, req[c].id)
  BY DEF Works, RegisterFound, ShutdownFound, Save, Fail, Abandon, ShutdownReturn, RegisterReturn, Untracked
<1>3. \A d \in Clients : d # c => req'[d] = req[d]
  BY <1>a
     DEF Works, RegisterFound, ShutdownFound, Save, Fail, Abandon, ShutdownReturn, RegisterReturn, Becomes
<1>4. req'[c].id # w
  <2>1. CASE RegisterFound(c)
    BY <1>a, <2>1 DEF RegisterFound, Becomes, Requests
  <2>2. CASE ShutdownFound(c)
    <3>1. ASSUME NEW o, req' = [req EXCEPT ![c] = [req[c] EXCEPT !.pc = "saving", !.obj = o]]
          PROVE  req'[c].id = req[c].id
      BY <1>a, <3>1 DEF Requests
    <3>2. ASSUME Becomes(c, Idle) PROVE req'[c] = Idle
      BY <1>a, <3>2 DEF Becomes
    <3> QED BY <1>a, <2>2, <3>1, <3>2 DEF ShutdownFound, Becomes
  <2>3. CASE Save(c)
    BY <1>a, <2>3 DEF Save, Becomes, Requests
  <2>4. CASE Fail(c) \/ Abandon(c) \/ RegisterReturn(c) \/ ShutdownReturn(c)
    BY <1>a, <2>4 DEF Fail, Abandon, RegisterReturn, ShutdownReturn, Becomes
  <2> QED BY <2>1, <2>2, <2>3, <2>4 DEF Works
<1>5. up' = up
  BY DEF Works, RegisterFound, ShutdownFound, Save, Fail, Abandon, ShutdownReturn, RegisterReturn
<1>6. broken' \subseteq broken \cup Leaves(req[c])
  BY DEF Works, RegisterFound, ShutdownFound, Save, Fail, Abandon, ShutdownReturn, RegisterReturn
<1>7. <<"register", w>> \notin Leaves(req[c])
  BY DEF Leaves
<1> QED BY <1>1, <1>2, <1>3, <1>4, <1>5, <1>6, <1>7 DEF Put, Without, Restrict, Registered, Working

LEMMA ToldStep ==
  ASSUME Serial, Sound, Agreed, Told, [MasterNext]_<<vars, knowledge>>
  PROVE  Told'
<1>a. /\ req \in [Clients -> Requests] /\ \A c \in Clients : Carried(c)
      /\ told \in [Workers -> Profiles \cup {None}] /\ None \notin Workers
      /\ table \in [DOMAIN table -> Profiles] /\ Written /\ Whole /\ OneEach
  BY SoundMeaning, NoneAssumption DEF Told, Agreed
\* Forgetting a worker, while the others keep what they were told of.
<1>b. ASSUME NEW w \in Workers, Forgets(w) PROVE told' \in [Workers -> Profiles \cup {None}]
                                              /\ told'[w] = None
                                              /\ \A x \in Workers : x # w => told'[x] = told[x]
  BY <1>a, <1>b DEF Forgets
<1>1. CASE Start
  <2>1. UNCHANGED <<table, req, told, broken>> /\ Registered' = DOMAIN table
    BY <1>1 DEF Start, Restore, Registered, Injection
  <2> QED BY <2>1 DEF Told, Working
<1>2. CASE Crash /\ UNCHANGED knowledge
  <2>1. UNCHANGED <<table, told>> /\ up' = FALSE /\ broken' = {}
        /\ \A w \in Workers : ~Working(w)'
    BY <1>2, NoneAssumption DEF Crash, knowledge, Working, Idle
  <2> QED BY <2>1 DEF Told
<1>3. ASSUME NEW c \in Clients, NEW w \in Workers, RegisterWorker(c, w) \/ ShutdownWorker(c, w)
      PROVE  Told'
  <2>1. Forgets(w) /\ UNCHANGED <<table, up, registry, broken>>
    BY <1>3 DEF RegisterWorker, Announces, Register, ShutdownWorker, Shutdown
  <2>2. req'[c].id = w /\ \A d \in Clients : d # c => req'[d] = req[d]
    BY <1>3, RequestStarts DEF RegisterWorker, Announces, ShutdownWorker
  <2>3. \A x \in Workers : x # w /\ Working(x)' => Working(x)
    BY <2>2 DEF Working
  <2> QED BY <1>b, <2>1, <2>3 DEF Told, Registered
<1>4. ASSUME NEW c \in Clients, Admits(c) PROVE Told'
  <2>1. /\ RegisterReturn(c) /\ UNCHANGED <<table, up>> /\ req' = [req EXCEPT ![c] = Idle]
        /\ told' = [told EXCEPT ![req[c].id] = objs[req[c].obj].profile]
        /\ registry' = Put(registry, req[c].id, req[c].obj)
    BY <1>4 DEF Admits, RegisterReturn, Becomes
  <2>2. req[c].pc # "idle" /\ Committed(c)
    BY <2>1 DEF RegisterReturn, Committed
  <2>3. PICK k \in Workers : k = req[c].id
    BY <1>a, <2>2 DEF Carried
  <2>4. k \in DOMAIN table /\ table[k] = objs[req[c].obj].profile
    BY <1>a, <2>2, <2>3 DEF Written, HasRow
  <2>5. ~Working(k)'
    BY <1>a, <2>1, <2>2, <2>3 DEF Working, OneEach, Idle
  <2>6. k \in Registered' /\ <<"register", k>> \notin broken'
    BY <1>a, <2>1, <2>2, <2>3 DEF Put, Registered, Whole, RegisterReturn
  <2>7. told' \in [Workers -> Profiles \cup {None}] /\ told'[k] = table[k]
    BY <1>a, <2>1, <2>3, <2>4
  <2>8. \A x \in Workers : x # k =>
          /\ told'[x] = told[x]
          /\ x \in Registered => x \in Registered'
          /\ Working(x)' => Working(x)
          /\ <<"register", x>> \in broken' => <<"register", x>> \in broken
    BY <1>a, <2>1, <2>3, OwnWorkerOnly
  <2> QED BY <2>1, <2>4, <2>5, <2>6, <2>7, <2>8 DEF Told
<1>5. ASSUME NEW c \in Clients, Works(c), UNCHANGED knowledge PROVE Told'
  <2>1. req[c].pc # "idle" /\ req[c].id \in Workers /\ told' = told
    BY <1>5, <1>a
       DEF Works, RegisterFound, ShutdownFound, Save, Fail, Abandon, ShutdownReturn, Carried,
           knowledge
  <2>2. told[req[c].id] = None
    BY <2>1 DEF Told, Working
  <2> QED BY <1>5, <2>1, <2>2, OwnWorkerOnly DEF Told
<1>6. ASSUME NEW w \in Workers, Heartbeat(w) \/ Age(w) \/ HandOut(w), UNCHANGED knowledge
      PROVE  Told'
  BY <1>6 DEF Heartbeat, Age, HandOut, Touch, Told, Working, Registered, knowledge
<1>7. ASSUME NEW w \in Workers, Forgets(w), UNCHANGED vars PROVE Told'
  BY <1>7, <1>b DEF vars, Told, Working, Registered
<1>8. ASSUME NEW w \in Workers, Expire(w), Forgets(w) PROVE Told'
  <2>1. UNCHANGED <<table, up, req, broken>> /\ Registered' = Registered \ {w}
    BY <1>8 DEF Expire, Without, Restrict, Registered
  <2> QED BY <1>8, <1>b, <2>1 DEF Told, Working
<1>9. CASE UNCHANGED <<vars, knowledge>>
  BY <1>9 DEF vars, knowledge, Told, Working, Registered
<1>10. ASSUME NEW w \in Workers, SendHeartbeat(w) PROVE Told'
  BY <1>6, <1>7, <1>10 DEF SendHeartbeat
<1> QED BY <1>1, <1>2, <1>3, <1>4, <1>5, <1>6, <1>8, <1>9, <1>10 DEF MasterNext

\* A worker that was told it is connected is tracked as what it announced, by every
\* process that has restored its workers, until it asks for something else.
THEOREM ConnectedStaysTracked ==
  ASSUME Serial
  PROVE  MasterSpec => []ConnectedIsTracked
<1>1. MasterInit => Told
  BY DEF MasterInit, Told
<1>2. Sound /\ Agreed /\ [Next]_vars => Agreed'
  BY AgreedStep
<1>3. Sound /\ Agreed /\ Told /\ [MasterNext]_<<vars, knowledge>> => Told'
  BY ToldStep
<1>4. Agreed /\ Told => ConnectedIsTracked
  BY DEF Agreed, Tracked, Told, ConnectedIsTracked, Differs, Committed, Working
<1> QED BY AgreedInit, <1>1, <1>2, <1>3, <1>4, AlwaysSound, MasterImplementsService, PTL
        DEF MasterSpec, Spec
=============================================================================
