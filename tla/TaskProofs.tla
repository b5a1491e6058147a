------------------------------ MODULE TaskProofs ------------------------------
(***************************************************************************)
(* What TaskService and TaskGrpcService guarantee for any number of        *)
(* batches, tasks, entities and requests.                                  *)
(***************************************************************************)
EXTENDS TaskGrpcService, WellFoundedInduction, TLAPS

-----------------------------------------------------------------------------
(* The inductive invariants.                                                *)

Known == 1..(nextId - 1)
Requests == [op : Ops \cup {None}, pc : Places, id : Batches \cup {0}, obj : Objects \cup {None},
             dirty : SUBSET Tasks, at : Tasks \cup {0}]
Entities == [id : Batches \cup {0}, status : [Tasks -> Statuses]]

\* The loop of _cancel_unfinished_tasks is on, or behind.
Sweeps(c) == req[c].pc \in {"marking", "committing", "committed"}
OpenCopy(c) == OpenIn(objs[req[c].obj].status)
\* The tasks that c has marked and whose rows it has yet to commit.
Touched(c) == {t \in Tasks : t \in req[c].dirty \/ (req[c].pc = "marking" /\ req[c].at = t)}

\* What the place of a request says of it ...
Stage(c) ==
  /\ req[c].pc = "idle" => req[c] = NoRequest
  /\ req[c].pc # "idle" => up /\ req[c].op \in Ops /\ req[c].id \in Batches
  /\ req[c].obj = None <=> req[c].pc \in {"idle", "loading"}
  /\ req[c].obj # None => objs[req[c].obj].id = req[c].id /\ req[c].id \in Known
  /\ req[c].pc = "created" <=> req[c].op = "create"
  /\ req[c].pc = "listed" <=> req[c].op = "list"
  /\ req[c].op = "task" => req[c].pc \in {"loading", "loaded"} /\ req[c].at \in Tasks
  /\ Sweeps(c) => req[c].op \in {"cancel", "delete"}
  /\ req[c].pc = "committed" /\ req[c].op = "delete" => req[c].id \notin DOMAIN db

\* ... and of its loop: what it has passed is marked, what it has not lies ahead.
Sweeping(c) ==
  /\ ~Sweeps(c) \/ req[c].pc = "committed" => req[c].dirty = {}
  /\ Sweeps(c) => OpenCopy(c) \cap Touched(c) = {}
  /\ req[c].pc = "marking" =>
       /\ req[c].at \in Tasks
       /\ \A t \in req[c].dirty : t < req[c].at
       /\ \A t \in OpenCopy(c) : t > req[c].at
  /\ req[c].pc \in {"committing", "committed"} => OpenCopy(c) = {}

Typed ==
  /\ nextId \in 1..(NumBatches + 1)
  /\ DOMAIN db \subseteq Known /\ db \in [DOMAIN db -> [Tasks -> Statuses]]
  /\ up \in BOOLEAN
  /\ objs \in [Objects -> Entities]
  /\ index \in [Batches -> [Tasks -> Objects \cup {None}]]
  /\ restored \subseteq Known /\ settled \subseteq Batches
  /\ req \in [Clients -> Requests]
Filed ==
  /\ DOMAIN cache \subseteq Known /\ cache \in [DOMAIN cache -> Objects]
  /\ \A b \in DOMAIN cache : objs[cache[b]].id = b
  /\ DOMAIN scheduled \subseteq Known
  /\ scheduled \in [DOMAIN scheduled -> [obj : Objects, tasks : SUBSET Tasks]]
  /\ \A b \in DOMAIN scheduled : objs[scheduled[b].obj].id = b
Stopped ==
  /\ DOMAIN cache = {} /\ DOMAIN scheduled = {} /\ restored = {}
  /\ index = [b \in Batches |-> Nowhere]

Sound == Typed /\ Filed /\ (\A c \in Clients : Stage(c) /\ Sweeping(c)) /\ (~up => Stopped)

-----------------------------------------------------------------------------
(* Types, and the loop of a cancellation.                                   *)

LEMMA Least ==
  ASSUME NEW S \in SUBSET Nat, S # {}
  PROVE  \E m \in S : \A n \in S : m <= n
<1> DEFINE R == OpToRel(<, Nat)
<1>1. IsWellFoundedOn(R, Nat)
  BY NatLessThanWellFounded
<1>2. \A x, y \in Nat : <<x, y>> \in R <=> x < y
  BY DEF OpToRel
<1> HIDE DEF R
<1>3. PICK x \in S : \A y \in S : ~(<<y, x>> \in R)
  BY <1>1, WFMin
<1>4. ASSUME NEW y \in S PROVE x <= y
  <2>1. x \in Nat /\ y \in Nat /\ ~(y < x)
    BY <1>2, <1>3
  <2> QED BY <2>1
<1> QED BY <1>4

\* The next open task is found whenever there is one.
LEMMA NextOpenFacts ==
  ASSUME objs \in [Objects -> Entities], NEW o \in Objects, NEW from \in Nat,
         \A t \in OpenIn(objs[o].status) : t >= from
  PROVE  /\ NextOpen(o, from) = {} => OpenIn(objs[o].status) = {}
         /\ \A t \in NextOpen(o, from) :
              /\ t \in OpenIn(objs[o].status) /\ t >= from
              /\ \A u \in OpenIn(objs[o].status) : t <= u
<1> DEFINE S == OpenIn(objs[o].status)
<1>1. S \in SUBSET Nat
  BY BoundsAssumption DEF OpenIn, Tasks
<1>2. ASSUME S # {} PROVE NextOpen(o, from) # {}
  <2>1. PICK m \in S : \A n \in S : m <= n
    BY <1>1, <1>2, Least
  <2> QED BY <2>1 DEF NextOpen
<1> QED BY <1>1, <1>2 DEF NextOpen

\* Marking a task of o, and nothing else.
LEMMA Marking ==
  ASSUME objs \in [Objects -> Entities], NEW o \in Objects, NEW t \in Tasks,
         objs' = [objs EXCEPT ![o].status[t] = "cancelled"]
  PROVE  /\ objs' \in [Objects -> Entities]
         /\ \A x \in Objects : x # o => objs'[x] = objs[x]
         /\ objs'[o].id = objs[o].id
         /\ \A u \in Tasks : objs'[o].status[u] = IF u = t THEN "cancelled" ELSE objs[o].status[u]
         /\ OpenIn(objs'[o].status) = OpenIn(objs[o].status) \ {t}
<1>1. objs[o] \in Entities /\ objs[o].status \in [Tasks -> Statuses]
  BY DEF Entities
<1>2. objs'[o] = [objs[o] EXCEPT !.status = [objs[o].status EXCEPT ![t] = "cancelled"]]
  OBVIOUS
<1>3. /\ objs'[o].id = objs[o].id
      /\ objs'[o].status = [objs[o].status EXCEPT ![t] = "cancelled"]
      /\ objs'[o] \in Entities
  BY <1>1, <1>2 DEF Entities, Statuses
<1>4. \A x \in Objects : x # o => objs'[x] = objs[x]
  OBVIOUS
<1>5. objs' \in [Objects -> Entities]
  BY <1>3, <1>4
<1> QED BY <1>1, <1>3, <1>4, <1>5 DEF OpenIn


\* A turn of c that goes on in its loop over o, of the batch b: what it changes.
Advances(c, op, b, o, dirty) ==
  /\ req' \in [Clients -> Requests] /\ \A d \in Clients : d # c => req'[d] = req[d]
  /\ req'[c].op = op /\ req'[c].id = b /\ req'[c].obj = o /\ req'[c].dirty = dirty
  /\ req'[c].pc \in {"marking", "committing"}
  /\ objs' \in [Objects -> Entities]
  /\ \A x \in Objects : x # o => objs'[x] = objs[x]
  /\ objs'[o].id = objs[o].id
  /\ \A t \in Tasks :
       \/ objs'[o].status[t] = objs[o].status[t]
       \/ objs[o].status[t] = "open" /\ objs'[o].status[t] = "cancelled" /\ t \in Touched(c)'
  /\ \A t \in Touched(c)' : t \in dirty \/ objs[o].status[t] = "open"
  /\ Sweeping(c)'

LEMMA SweepFacts ==
  ASSUME objs \in [Objects -> Entities], req \in [Clients -> Requests],
         NEW c \in Clients, NEW op \in {"cancel", "delete"} \cap Ops, NEW b \in Batches,
         NEW o \in Objects, NEW from \in Nat, NEW dirty \in SUBSET Tasks,
         Sweep(c, op, b, o, from, dirty),
         \A t \in OpenIn(objs[o].status) : t >= from,
         \A t \in dirty : t < from
  PROVE  Advances(c, op, b, o, dirty)
<1>a. \A t \in Tasks : t \in Nat
  BY BoundsAssumption DEF Tasks
<1> DEFINE n(pc, at) == [op |-> op, pc |-> pc, id |-> b, obj |-> o, dirty |-> dirty, at |-> at]
<1>1. ASSUME NEW t \in NextOpen(o, from), objs' = [objs EXCEPT ![o].status[t] = "cancelled"],
             req' = [req EXCEPT ![c] = n("marking", t)]
      PROVE  Advances(c, op, b, o, dirty)
  <2>1. /\ t \in OpenIn(objs[o].status) /\ t >= from /\ t \in Tasks /\ objs[o].status[t] = "open"
        /\ \A u \in OpenIn(objs[o].status) : t <= u
    BY <1>1, NextOpenFacts DEF OpenIn
  <2>2. /\ req' \in [Clients -> Requests] /\ \A d \in Clients : d # c => req'[d] = req[d]
        /\ req'[c].op = op /\ req'[c].id = b /\ req'[c].obj = o /\ req'[c].dirty = dirty
        /\ req'[c].pc = "marking" /\ req'[c].at = t
    <3>1. n("marking", t) \in Requests
      BY <2>1 DEF Requests, Places
    <3> QED BY <1>1, <3>1
  <2>3. /\ objs' \in [Objects -> Entities]
        /\ \A x \in Objects : x # o => objs'[x] = objs[x]
        /\ objs'[o].id = objs[o].id
        /\ \A u \in Tasks : objs'[o].status[u] = IF u = t THEN "cancelled" ELSE objs[o].status[u]
        /\ OpenIn(objs'[o].status) = OpenIn(objs[o].status) \ {t}
    BY <1>1, <2>1, Marking
  <2>4. Touched(c)' = dirty \cup {t}
    BY <2>1, <2>2 DEF Touched
  <2>5. OpenCopy(c)' = OpenIn(objs[o].status) \ {t}
    BY <2>2, <2>3 DEF OpenCopy
  <2>6. Sweeping(c)'
    <3>1. \A u \in OpenIn(objs[o].status) : u \in Tasks
      BY DEF OpenIn
    <3>2. \A u \in OpenCopy(c)' : u > t
      BY <1>a, <2>1, <2>5, <3>1
    <3>3. \A u \in dirty : u < t
      BY <1>a, <2>1
    <3>4. OpenCopy(c)' \cap Touched(c)' = {}
      BY <1>a, <2>1, <2>4, <2>5, <3>1, <3>3
    <3> QED BY <2>1, <2>2, <3>2, <3>3, <3>4 DEF Sweeping, Sweeps
  <2> QED BY <2>1, <2>2, <2>3, <2>4, <2>6 DEF Advances
<1>2. ASSUME NextOpen(o, from) = {}, UNCHANGED objs, req' = [req EXCEPT ![c] = n("committing", 0)]
      PROVE  Advances(c, op, b, o, dirty)
  <2>1. OpenIn(objs[o].status) = {}
    BY <1>2, NextOpenFacts
  <2>2. /\ req' \in [Clients -> Requests] /\ \A d \in Clients : d # c => req'[d] = req[d]
        /\ req'[c].op = op /\ req'[c].id = b /\ req'[c].obj = o /\ req'[c].dirty = dirty
        /\ req'[c].pc = "committing"
    <3>1. n("committing", 0) \in Requests
      BY DEF Requests, Places
    <3> QED BY <1>2, <3>1
  <2>3. Sweeping(c)'
    BY <1>2, <2>1, <2>2 DEF Sweeping, Sweeps, OpenCopy
  <2>4. Touched(c)' \subseteq dirty
    BY <2>2 DEF Touched
  <2> QED BY <1>2, <2>2, <2>3, <2>4 DEF Advances
<1> QED BY <1>1, <1>2 DEF Sweep, Becomes


-----------------------------------------------------------------------------
(* What every turn of a request does.                                       *)

\* The turn is c's own; of the entities in use it only marks tasks of its batch.
Turn(c) ==
  /\ up /\ up' /\ UNCHANGED restored
  /\ req' \in [Clients -> Requests] /\ \A d \in Clients : d # c => req'[d] = req[d]
  /\ nextId' \in {nextId, nextId + 1}
  /\ objs' \in [Objects -> Entities]
  /\ \A o \in Objects : ~Fresh(o) =>
       /\ objs'[o].id = objs[o].id
       /\ \A t \in Tasks :
            \/ objs'[o].status[t] = objs[o].status[t]
            \/ /\ objs[o].status[t] = "open" /\ objs'[o].status[t] = "cancelled"
               /\ t \in Touched(c)' /\ objs[o].id = req'[c].id

\* Rows: none comes back, and a task that is not open stays so.
Rows ==
  /\ db' \in [DOMAIN db' -> [Tasks -> Statuses]]
  /\ \A b \in DOMAIN db' :
       \/ b \in DOMAIN db /\ OpenIn(db'[b]) \subseteq OpenIn(db[b])
       \/ b = nextId /\ nextId' = nextId + 1

\* What c files, it files under its own batch.
CacheOf(c) ==
  \/ UNCHANGED cache
  \/ cache' = Without(cache, req[c].id)
  \/ req[c].obj # None /\ cache' = Put(cache, req[c].id, req[c].obj)
  \/ req[c].id \in DOMAIN cache /\ cache' = Put(cache, req[c].id, cache[req[c].id])
ScheduleOf(c) ==
  \/ UNCHANGED scheduled
  \/ scheduled' = Without(scheduled, req[c].id)
  \/ /\ req[c].obj # None /\ req[c].id \notin DOMAIN scheduled
     /\ scheduled' = Put(scheduled, req[c].id, [obj |-> req[c].obj, tasks |-> Tasks])

LEMMA SoundMeaning ==
  ASSUME Sound
  PROVE  /\ nextId \in 1..(NumBatches + 1) /\ NumBatches \in Nat /\ Known \subseteq Batches
         /\ objs \in [Objects -> Entities] /\ req \in [Clients -> Requests]
         /\ db \in [DOMAIN db -> [Tasks -> Statuses]] /\ DOMAIN db \subseteq Known
         /\ \A c \in Clients : /\ Stage(c) /\ Sweeping(c) /\ req[c] \in Requests
                               /\ req[c].obj # None => req[c].obj \in Objects
BY BoundsAssumption DEF Sound, Typed, Known, Batches, Requests

\* The entities that the process refers to are not fresh.
LEMMA HeldIsNotFresh ==
  ASSUME Sound
  PROVE  /\ \A c \in Clients : ~Fresh(req[c].obj)
         /\ \A b \in DOMAIN cache : cache[b] \in Objects /\ ~Fresh(cache[b])
         /\ \A b \in DOMAIN scheduled : scheduled[b].obj \in Objects /\ ~Fresh(scheduled[b].obj)
         /\ \A b \in Batches, t \in Tasks : ~Fresh(index[b][t])
BY DEF Fresh, Live, Sound, Filed

LEMMA TurnKeepsTheOthers ==
  ASSUME Sound, NEW c \in Clients, Turn(c), Rows, NEW d \in Clients, d # c
  PROVE  Stage(d)' /\ Sweeping(d)'
<1>1. req'[d] = req[d] /\ Stage(d) /\ Sweeping(d) /\ up' /\ NumBatches \in Nat /\ nextId \in Nat
  BY SoundMeaning DEF Turn
<1>2. Known \subseteq Known' /\ nextId \notin Known
  BY SoundMeaning DEF Turn, Known
<1>3. CASE req[d].obj = None
  <2>1. Stage(d)'
    BY <1>1, <1>3 DEF Stage, Sweeps
  <2>2. ~Sweeps(d)
    BY <1>1, <1>3 DEF Stage, Sweeps
  <2> QED BY <1>1, <2>1, <2>2 DEF Sweeping, Sweeps, Touched
<1>4. CASE req[d].obj # None
  <2> DEFINE o == req[d].obj
  <2>1. /\ o \in Objects /\ objs'[o].id = objs[o].id
        /\ \A t \in Tasks : objs'[o].status[t] = "open" => objs[o].status[t] = "open"
    BY <1>4, SoundMeaning, HeldIsNotFresh DEF Turn
  <2>2. OpenCopy(d)' \subseteq OpenCopy(d)
    BY <1>1, <2>1 DEF OpenCopy, OpenIn
  <2>3. Touched(d)' = Touched(d)
    BY <1>1 DEF Touched
  <2>4. Sweeping(d)'
    BY <1>1, <2>2, <2>3 DEF Sweeping, Sweeps
  <2>5. Stage(d)'
    BY <1>1, <1>2, <1>4, <2>1 DEF Stage, Sweeps, Rows
  <2> QED BY <2>4, <2>5
<1> QED BY <1>3, <1>4

LEMMA TurnIsSound ==
  ASSUME Sound, NEW c \in Clients, Turn(c), Rows, CacheOf(c), ScheduleOf(c),
         nextId' \in 1..(NumBatches + 1), index' \in [Batches -> [Tasks -> Objects \cup {None}]],
         settled' \subseteq Batches, Stage(c)', Sweeping(c)'
  PROVE  Sound'
<1> DEFINE k == req[c].id
           o == req[c].obj
<1>1. \A d \in Clients : Stage(d)' /\ Sweeping(d)'
  BY TurnKeepsTheOthers
<1>2. Known \subseteq Known' /\ nextId' \in Nat /\ (nextId' = nextId + 1 => nextId \in Known')
  BY SoundMeaning DEF Turn, Known
<1>3. Typed'
  BY <1>2 DEF Typed, Turn, Rows, Sound
<1>4. o # None => o \in Objects /\ objs'[o].id = k /\ k \in Known'
  BY <1>2, SoundMeaning, HeldIsNotFresh DEF Stage, Turn
<1>5. \A b \in DOMAIN cache : b \in Known' /\ cache[b] \in Objects /\ objs'[cache[b]].id = b
  BY <1>2, HeldIsNotFresh DEF Turn, Sound, Filed
<1>6. \A b \in DOMAIN scheduled :
        /\ b \in Known' /\ objs'[scheduled[b].obj].id = b
        /\ scheduled[b] \in [obj : Objects, tasks : SUBSET Tasks]
  BY <1>2, HeldIsNotFresh DEF Turn, Sound, Filed
<1> HIDE DEF k, o
<1>7. /\ DOMAIN cache' \subseteq Known' /\ cache' \in [DOMAIN cache' -> Objects]
      /\ \A b \in DOMAIN cache' : objs'[cache'[b]].id = b
  <2>1. CASE UNCHANGED cache
    BY <1>5, <2>1 DEF Sound, Filed
  <2>2. CASE cache' = Without(cache, k)
    BY <1>5, <2>2 DEF Without, Restrict
  <2>3. CASE o # None /\ cache' = Put(cache, k, o)
    BY <1>4, <1>5, <2>3 DEF Put
  <2>4. CASE k \in DOMAIN cache /\ cache' = Put(cache, k, cache[k])
    BY <1>5, <2>4 DEF Put
  <2> QED BY <2>1, <2>2, <2>3, <2>4 DEF CacheOf, k, o
<1>8. /\ DOMAIN scheduled' \subseteq Known'
      /\ scheduled' \in [DOMAIN scheduled' -> [obj : Objects, tasks : SUBSET Tasks]]
      /\ \A b \in DOMAIN scheduled' : objs'[scheduled'[b].obj].id = b
  <2>1. CASE UNCHANGED scheduled
    BY <1>6, <2>1 DEF Sound, Filed
  <2>2. CASE scheduled' = Without(scheduled, k)
    BY <1>6, <2>2 DEF Without, Restrict
  <2>3. CASE o # None /\ scheduled' = Put(scheduled, k, [obj |-> o, tasks |-> Tasks])
    BY <1>4, <1>6, <2>3 DEF Put
  <2> QED BY <2>1, <2>2, <2>3 DEF ScheduleOf, k, o
<1> QED BY <1>1, <1>3, <1>7, <1>8 DEF Sound, Filed, Turn


\* A turn that TurnIsSound speaks of.
Regular(c) ==
  /\ Turn(c) /\ Rows /\ CacheOf(c) /\ ScheduleOf(c) /\ Stage(c)' /\ Sweeping(c)'
  /\ nextId' \in 1..(NumBatches + 1) /\ index' \in [Batches -> [Tasks -> Objects \cup {None}]]
  /\ settled' \subseteq Batches

\* What becomes of the request of c in a turn.  It ends ...
Over(c) == req'[c] = NoRequest /\ UNCHANGED objs
\* ... it asks for what is not in memory ...
Asks(c) ==
  /\ req[c].pc = "idle" /\ req'[c].pc = "loading" /\ Touched(c)' = {}
  /\ req'[c].op # "task" => req'[c].id \notin DOMAIN cache
  /\ UNCHANGED <<db, cache, index, scheduled, objs>>
\* ... it obtains an entity as the database has it ...
Obtains(c) ==
  /\ req'[c].obj \in Objects /\ Fresh(req'[c].obj) /\ Touched(c)' = {}
  /\ \A o \in Objects : o # req'[c].obj => objs'[o] = objs[o]
  /\ \/ Create(c) /\ req'[c].pc = "created" /\ req'[c].id = nextId
        /\ DOMAIN db' = DOMAIN db \cup {nextId} /\ \A b \in DOMAIN db : db'[b] = db[b]
     \/ req[c].pc = "idle" /\ req'[c].pc = "listed" /\ UNCHANGED db
     \/ /\ req[c].pc = "loading" /\ req'[c].pc = "loaded" /\ UNCHANGED db
        /\ req'[c].op = req[c].op /\ req'[c].id = req[c].id
  /\ req'[c].id \in DOMAIN db'
  /\ OpenIn(objs'[req'[c].obj].status) \subseteq OpenIn(db'[req'[c].id])
  /\ req'[c].op # "task" => objs'[req'[c].obj].status = db'[req'[c].id]
  /\ UNCHANGED <<cache, index, scheduled>>
\* ... or it is in the loop of a cancellation, over the cached entity or the one it has
\* read: each task it has marked stays in its hands until the row is finished.
Proceeds(c) ==
  /\ Sweeps(c)' /\ req'[c].obj \in Objects /\ ~Fresh(req'[c].obj)
  /\ \/ /\ req[c].pc = "idle"
        /\ req'[c].id \in DOMAIN cache /\ req'[c].obj = cache[req'[c].id]
     \/ /\ Sweeps(c) \/ (req[c].pc = "loaded" /\ req[c].op # "task")
        /\ req'[c].op = req[c].op /\ req'[c].id = req[c].id /\ req'[c].obj = req[c].obj
        /\ \A t \in Touched(c) : t \in Touched(c)' \/ t \notin OpenRow(req[c].id)'
  /\ \A o \in Objects : o # req'[c].obj => objs'[o] = objs[o]
  /\ \A t \in Touched(c)' : t \in Touched(c) \/ objs[req'[c].obj].status[t] = "open"

\* No row changes.
LEMMA SameRows == ASSUME Sound, UNCHANGED db PROVE Rows
BY SoundMeaning DEF Rows

\* A fresh entity is given something to hold, by a request that starts or has read.
LEMMA Fills ==
  ASSUME Sound, up, NEW c \in Clients, NEW o \in Objects, Fresh(o),
         req' \in [Clients -> Requests], \A d \in Clients : d # c => req'[d] = req[d],
         objs' \in [Objects -> Entities], \A x \in Objects : x # o => objs'[x] = objs[x],
         nextId' \in {nextId, nextId + 1}, UNCHANGED <<up, restored>>,
         req'[c].pc \in {"created", "loaded", "listed"}, req'[c].op \in Ops,
         req'[c].id \in Batches, req'[c].id \in Known', req'[c].dirty = {},
         req'[c].obj = o, objs'[o].id = req'[c].id,
         req'[c].pc = "created" <=> req'[c].op = "create",
         req'[c].pc = "listed" <=> req'[c].op = "list",
         req'[c].op = "task" => req'[c].pc = "loaded" /\ req'[c].at \in Tasks
  PROVE  Turn(c) /\ Stage(c)' /\ Sweeping(c)' /\ Touched(c)' = {}
<1>1. Turn(c)
  BY DEF Turn
<1>2. Stage(c)'
  BY NoneAssumption DEF Stage, Sweeps
<1>3. Sweeping(c)' /\ Touched(c)' = {}
  BY DEF Sweeping, Sweeps, Touched
<1> QED BY <1>1, <1>2, <1>3

\* A fresh entity is given to a request.
LEMMA Given ==
  ASSUME Sound, NEW c \in Clients, NEW r \in Requests, NEW o \in Objects, NEW e \in Entities,
         req' = [req EXCEPT ![c] = r], objs' = [objs EXCEPT ![o] = e]
  PROVE  /\ req' \in [Clients -> Requests] /\ \A d \in Clients : d # c => req'[d] = req[d]
         /\ objs' \in [Objects -> Entities] /\ \A x \in Objects : x # o => objs'[x] = objs[x]
         /\ req'[c] = r /\ objs'[o] = e
BY SoundMeaning

\* A request moves on, or ends, without an entity being touched.
LEMMA Moves ==
  ASSUME Sound, up, NEW c \in Clients, NEW r \in Requests, req' = [req EXCEPT ![c] = r],
         UNCHANGED <<up, restored, nextId, objs>>
  PROVE  Turn(c) /\ req'[c] = r
BY SoundMeaning DEF Turn

LEMMA Ends ==
  ASSUME Sound, NEW c \in Clients, req[c].pc # "idle", Becomes(c, NoRequest),
         UNCHANGED <<up, restored, nextId, objs>>
  PROVE  up /\ Turn(c) /\ Stage(c)' /\ Sweeping(c)' /\ Touched(c)' = {} /\ req'[c] = NoRequest
<1>1. NoRequest \in Requests
  BY DEF NoRequest, Requests, Places
<1>2. up /\ Turn(c) /\ req'[c] = NoRequest
  BY <1>1, Moves, SoundMeaning DEF Becomes, Stage
<1>3. Stage(c)'
  BY <1>2, NoneAssumption, OpsAssumption DEF Stage, NoRequest, Sweeps, None
<1>4. Sweeping(c)' /\ Touched(c)' = {}
  BY <1>2 DEF Sweeping, Sweeps, Touched, NoRequest
<1> QED BY <1>2, <1>3, <1>4

LEMMA Starts ==
  ASSUME Sound, NEW c \in Clients,
         \/ Create(c)
         \/ \E b \in Batches : \/ \E op \in {"cancel", "delete"} : Begin(c, op, b)
                               \/ \E op \in {"cancel", "delete", "get"} : BeginLoad(c, op, b)
                               \/ \E t \in Tasks : BeginTask(c, b, t)
                               \/ List(c, b)
  PROVE  Regular(c) /\ (Asks(c) \/ Obtains(c) \/ Proceeds(c))
<1>a. req[c].pc = "idle" /\ up
  BY DEF Create, Begin, BeginLoad, BeginTask, List, Idle
<1>b. /\ Typed /\ index \in [Batches -> [Tasks -> Objects \cup {None}]] /\ settled \subseteq Batches
      /\ nextId \in 1..(NumBatches + 1)
  BY DEF Sound, Typed
<1>1. CASE Create(c)
  <2>1. /\ nextId \in Batches /\ nextId' = nextId + 1 /\ "create" \in Ops
        /\ db' = Put(db, nextId, [t \in Tasks |-> "open"])
        /\ UNCHANGED <<up, cache, index, scheduled, restored, settled>>
    BY <1>1 DEF Create, history
  <2>2. PICK o \in Objects :
          /\ Fresh(o)
          /\ objs' = [objs EXCEPT ![o] = [id |-> nextId, status |-> [t \in Tasks |-> "open"]]]
          /\ req' = [req EXCEPT ![c] = [NoRequest EXCEPT !.op = "create", !.pc = "created",
                                                         !.id = nextId, !.obj = o]]
    BY <1>1 DEF Create, Becomes
  <2>3. PICK n : n = nextId
    OBVIOUS
  <2> DEFINE q == [NoRequest EXCEPT !.op = "create", !.pc = "created", !.id = n, !.obj = o]
             f == [id |-> n, status |-> [t \in Tasks |-> "open"]]
  <2>4. /\ q \in Requests /\ q.op = "create" /\ q.pc = "created" /\ q.id = n /\ q.obj = o
        /\ q.dirty = {}
    BY <2>1, <2>3 DEF NoRequest, Requests, Places
  <2>5. f \in Entities /\ f.id = n /\ f.status = [t \in Tasks |-> "open"]
    BY <2>1, <2>3 DEF Entities, Statuses
  <2>6. req' = [req EXCEPT ![c] = q] /\ objs' = [objs EXCEPT ![o] = f]
    BY <2>2, <2>3
  <2>7. n \in Known' /\ nextId' \in 1..(NumBatches + 1)
    BY <1>b, <2>1, <2>3, BoundsAssumption DEF Known, Batches
  <2> HIDE DEF q, f
  <2>8. Turn(c) /\ Stage(c)' /\ Sweeping(c)' /\ Obtains(c)
    <3>1. /\ req' \in [Clients -> Requests] /\ \A d \in Clients : d # c => req'[d] = req[d]
          /\ objs' \in [Objects -> Entities] /\ \A x \in Objects : x # o => objs'[x] = objs[x]
          /\ req'[c] = q /\ objs'[o] = f
      <4>1. q \in Requests /\ f \in Entities
        BY <2>4, <2>5
      <4>2. req' = [req EXCEPT ![c] = q] /\ objs' = [objs EXCEPT ![o] = f]
        BY <2>6
      <4> QED BY <4>1, <4>2, Given
    <3>2. /\ Fresh(o) /\ UNCHANGED <<up, restored>> /\ nextId' \in {nextId, nextId + 1}
          /\ q.op \in Ops /\ q.id \in Batches
      BY <2>1, <2>2, <2>3, <2>4
    <3>3. Turn(c) /\ Stage(c)' /\ Sweeping(c)' /\ Touched(c)' = {}
      BY <1>a, <2>4, <2>5, <2>7, <3>1, <3>2, Fills
    <3>4. /\ DOMAIN db' = DOMAIN db \cup {n} /\ db'[n] = [t \in Tasks |-> "open"]
          /\ \A b \in DOMAIN db : db'[b] = db[b]
      <4>1. n \notin DOMAIN db
        BY <2>3, SoundMeaning DEF Known
      <4> QED BY <2>1, <2>3, <4>1 DEF Put
    <3> QED BY <1>1, <2>1, <2>3, <2>4, <2>5, <3>1, <3>2, <3>3, <3>4 DEF Obtains
  <2>9. Rows
    BY <2>1, SoundMeaning DEF Rows, Put, Statuses
  <2> QED BY <1>b, <2>1, <2>7, <2>8, <2>9 DEF Regular, CacheOf, ScheduleOf
<1>2. ASSUME NEW b \in Batches, NEW op \in {"cancel", "delete"}, Begin(c, op, b)
      PROVE  Regular(c) /\ Proceeds(c)
  <2>1. /\ op \in Ops /\ b \in DOMAIN cache
        /\ UNCHANGED <<db, nextId, up, cache, index, scheduled, restored, settled>>
    BY <1>2 DEF Begin, history
  <2>2. PICK o \in Objects : o = cache[b]
    BY <2>1, HeldIsNotFresh
  <2>3. Sweep(c, op, b, o, 1, {})
    BY <1>2, <2>2 DEF Begin
  <2>4. Advances(c, op, b, o, {})
    <3>1. \A t \in OpenIn(objs[o].status) : t >= 1
      BY BoundsAssumption DEF OpenIn, Tasks
    <3> QED BY <2>1, <2>3, <3>1, SweepFacts, SoundMeaning
  <2>5. objs[o].id = b /\ b \in Known
    BY <2>1, <2>2 DEF Sound, Filed
  <2>6. Turn(c)
    BY <1>a, <2>1, <2>4, <2>5 DEF Turn, Advances
  <2>7. Stage(c)'
    BY <1>a, <2>1, <2>4, <2>5, NoneAssumption DEF Stage, Advances, Sweeps, Known
  <2>8. Proceeds(c)
    <3>1. ~Fresh(o)
      BY <2>1, <2>2, HeldIsNotFresh
    <3> QED BY <1>a, <2>1, <2>2, <2>4, <3>1 DEF Proceeds, Advances, Sweeps
  <2> QED BY <1>b, <2>1, <2>4, <2>6, <2>7, <2>8, SameRows
          DEF Regular, CacheOf, ScheduleOf, Advances
<1>3. ASSUME NEW b \in Batches, NEW op \in {"cancel", "delete", "get"}, BeginLoad(c, op, b)
      PROVE  Regular(c) /\ Asks(c)
  <2> DEFINE q == [NoRequest EXCEPT !.op = op, !.pc = "loading", !.id = b]
  <2>1. /\ op \in Ops /\ UNCHANGED <<db, nextId, up, cache, index, scheduled, objs, restored, settled>>
        /\ req' = [req EXCEPT ![c] = q] /\ b \notin DOMAIN cache
    BY <1>3 DEF BeginLoad, history, memory, Becomes
  <2>2. q \in Requests /\ q.op = op /\ q.pc = "loading" /\ q.id = b /\ q.obj = None /\ q.dirty = {}
    BY <2>1 DEF NoRequest, Requests, Places
  <2> HIDE DEF q
  <2>3. Turn(c) /\ req'[c] = q
    BY <1>a, <2>1, <2>2, Moves
  <2>4. Stage(c)' /\ Sweeping(c)'
    BY <1>a, <2>1, <2>2, <2>3 DEF Stage, Sweeping, Sweeps
  <2>5. Asks(c)
    BY <1>a, <2>1, <2>2, <2>3 DEF Asks, Touched
  <2> QED BY <1>b, <2>1, <2>3, <2>4, <2>5, SameRows DEF Regular, CacheOf, ScheduleOf
<1>4. ASSUME NEW b \in Batches, NEW t \in Tasks, BeginTask(c, b, t) PROVE Regular(c) /\ Asks(c)
  <2> DEFINE q == [NoRequest EXCEPT !.op = "task", !.pc = "loading", !.id = b, !.at = t]
  <2>1. /\ "task" \in Ops
        /\ UNCHANGED <<db, nextId, up, cache, index, scheduled, objs, restored, settled>>
        /\ req' = [req EXCEPT ![c] = q]
    BY <1>4 DEF BeginTask, history, memory, Becomes
  <2>2. /\ q \in Requests /\ q.op = "task" /\ q.pc = "loading" /\ q.id = b /\ q.obj = None
        /\ q.dirty = {} /\ q.at = t
    BY <2>1 DEF NoRequest, Requests, Places
  <2> HIDE DEF q
  <2>3. Turn(c) /\ req'[c] = q
    BY <1>a, <2>1, <2>2, Moves
  <2>4. Stage(c)' /\ Sweeping(c)'
    BY <1>a, <2>1, <2>2, <2>3 DEF Stage, Sweeping, Sweeps
  <2>5. Asks(c)
    BY <1>a, <2>1, <2>2, <2>3 DEF Asks, Touched
  <2> QED BY <1>b, <2>1, <2>3, <2>4, <2>5, SameRows DEF Regular, CacheOf, ScheduleOf
<1>5. ASSUME NEW b \in Batches, List(c, b) PROVE Regular(c) /\ Obtains(c)
  <2>1. /\ "list" \in Ops /\ b \in DOMAIN db
        /\ UNCHANGED <<db, nextId, up, cache, index, scheduled, restored, settled>>
    BY <1>5 DEF List, history
  <2>2. PICK o \in Objects :
          /\ Fresh(o) /\ objs' = [objs EXCEPT ![o] = [id |-> b, status |-> db[b]]]
          /\ req' = [req EXCEPT ![c] = [NoRequest EXCEPT !.op = "list", !.pc = "listed",
                                                         !.id = b, !.obj = o]]
    BY <1>5 DEF List, Becomes
  <2>3. PICK s : s = db[b] /\ s \in [Tasks -> Statuses]
    BY <2>1, SoundMeaning
  <2> DEFINE q == [NoRequest EXCEPT !.op = "list", !.pc = "listed", !.id = b, !.obj = o]
             f == [id |-> b, status |-> s]
  <2>4. /\ q \in Requests /\ q.op = "list" /\ q.pc = "listed" /\ q.id = b /\ q.obj = o
        /\ q.dirty = {}
    BY <2>1 DEF NoRequest, Requests, Places
  <2>5. f \in Entities /\ f.id = b /\ f.status = s
    BY <2>3 DEF Entities
  <2>6. req' = [req EXCEPT ![c] = q] /\ objs' = [objs EXCEPT ![o] = f]
    BY <2>2, <2>3
  <2>7. b \in Known'
    BY <2>1, SoundMeaning DEF Known
  <2> HIDE DEF q, f
  <2>8. Turn(c) /\ Stage(c)' /\ Sweeping(c)' /\ Obtains(c)
    <3>1. /\ req' \in [Clients -> Requests] /\ \A d \in Clients : d # c => req'[d] = req[d]
          /\ objs' \in [Objects -> Entities] /\ \A x \in Objects : x # o => objs'[x] = objs[x]
          /\ req'[c] = q /\ objs'[o] = f
      BY <2>4, <2>5, <2>6, Given
    <3>2. Fresh(o) /\ UNCHANGED <<up, restored, nextId>> /\ q.op \in Ops /\ q.id \in Batches
      BY <2>1, <2>2, <2>4
    <3>3. Turn(c) /\ Stage(c)' /\ Sweeping(c)' /\ Touched(c)' = {}
      BY <1>a, <2>4, <2>5, <2>7, <3>1, <3>2, Fills
    <3> QED BY <1>a, <2>1, <2>3, <2>4, <2>5, <3>1, <3>2, <3>3 DEF Obtains
  <2> QED BY <1>b, <2>1, <2>8, SameRows DEF Regular, CacheOf, ScheduleOf
<1> QED BY <1>1, <1>2, <1>3, <1>4, <1>5


\* Reading a batch, or a task of it.
LEMMA Reads ==
  ASSUME Sound, NEW c \in Clients, Load(c)
  PROVE  Regular(c) /\ (Over(c) \/ Obtains(c))
<1>a. /\ req[c].pc = "loading" /\ up /\ Stage(c) /\ req[c] \in Requests
      /\ UNCHANGED <<db, nextId, up, cache, index, scheduled, restored, settled>>
  BY SoundMeaning DEF Load, history, Stage
<1>b. /\ Typed /\ index \in [Batches -> [Tasks -> Objects \cup {None}]] /\ settled \subseteq Batches
      /\ nextId \in 1..(NumBatches + 1)
  BY DEF Sound, Typed
<1>1. ASSUME req[c].id \in DOMAIN db, NEW o \in Objects, Fresh(o),
             objs' = [objs EXCEPT ![o] = Read(req[c])],
             req' = [req EXCEPT ![c] = [req[c] EXCEPT !.pc = "loaded", !.obj = o]]
      PROVE  Turn(c) /\ Stage(c)' /\ Sweeping(c)' /\ Obtains(c)
  <2>1. PICK b, op, at : b = req[c].id /\ op = req[c].op /\ at = req[c].at
    OBVIOUS
  <2>2. /\ Read(req[c]) \in Entities /\ Read(req[c]).id = b
        /\ OpenIn(Read(req[c]).status) \subseteq OpenIn(db[b])
        /\ op # "task" => Read(req[c]).status = db[b]
    <3>1. db[b] \in [Tasks -> Statuses] /\ b \in Batches
      BY <1>1, <2>1, SoundMeaning
    <3>2. [Unused.status EXCEPT ![at] = db[b][at]] \in [Tasks -> Statuses]
      <4>1. Unused.status \in [Tasks -> Statuses]
        BY DEF Unused, Statuses
      <4>2. CASE at \in Tasks
        BY <3>1, <4>1, <4>2
      <4>3. CASE at \notin Tasks
        BY <4>1, <4>3
      <4> QED BY <4>2, <4>3
    <3>3. OpenIn([Unused.status EXCEPT ![at] = db[b][at]]) \subseteq OpenIn(db[b])
      BY DEF Unused, OpenIn
    <3> QED BY <2>1, <3>1, <3>2, <3>3 DEF Read, Entities
  <2>3. /\ objs' \in [Objects -> Entities] /\ \A x \in Objects : x # o => objs'[x] = objs[x]
        /\ objs'[o].id = b /\ objs'[o] = Read(req[c])
    BY <1>1, <2>2, SoundMeaning
  <2>4. /\ req' \in [Clients -> Requests] /\ \A d \in Clients : d # c => req'[d] = req[d]
        /\ req'[c].pc = "loaded" /\ req'[c].op = op /\ req'[c].id = b /\ req'[c].obj = o
        /\ req'[c].dirty = req[c].dirty /\ req'[c].at = at
    <3> DEFINE q == [req[c] EXCEPT !.pc = "loaded", !.obj = o]
    <3>1. /\ q \in Requests /\ q.pc = "loaded" /\ q.op = req[c].op /\ q.id = req[c].id
          /\ q.obj = o /\ q.dirty = req[c].dirty /\ q.at = req[c].at
      BY <1>a DEF Requests, Places
    <3> HIDE DEF q
    <3> QED BY <1>1, <2>1, <3>1, SoundMeaning DEF q
  <2>5. op \in Ops /\ b \in Batches /\ b \in Known' /\ req[c].dirty = {}
    BY <1>a, <1>1, <2>1, SoundMeaning DEF Stage, Known, Sweeping, Sweeps
  <2>6. op # "create" /\ op # "list" /\ (op = "task" => at \in Tasks)
    BY <1>a, <2>1 DEF Stage
  <2>7. Turn(c) /\ Stage(c)' /\ Sweeping(c)' /\ Touched(c)' = {}
    BY <1>a, <1>1, <2>3, <2>4, <2>5, <2>6, Fills
  <2>8. b \in DOMAIN db
    BY <1>1, <2>1
  <2> QED BY <1>a, <1>1, <2>1, <2>2, <2>3, <2>4, <2>7, <2>8 DEF Obtains
<1>2. ASSUME Becomes(c, NoRequest), UNCHANGED objs
      PROVE  Turn(c) /\ Stage(c)' /\ Sweeping(c)' /\ Over(c)
  BY <1>a, <1>2, Ends DEF Over
<1>3. Turn(c) /\ Stage(c)' /\ Sweeping(c)' /\ (Over(c) \/ Obtains(c))
  BY <1>1, <1>2 DEF Load, Becomes
<1> QED BY <1>a, <1>b, <1>3, SameRows DEF Regular, CacheOf, ScheduleOf

\* The index with the tasks of b, or one of them, pointing elsewhere.
LEMMA IndexType ==
  ASSUME index \in [Batches -> [Tasks -> Objects \cup {None}]], NEW b, NEW o \in Objects \cup {None}
  PROVE  /\ [index EXCEPT ![b] = Everywhere(o)] \in [Batches -> [Tasks -> Objects \cup {None}]]
         /\ [index EXCEPT ![b] = Nowhere] \in [Batches -> [Tasks -> Objects \cup {None}]]
<1>1. Everywhere(o) \in [Tasks -> Objects \cup {None}] /\ Nowhere \in [Tasks -> Objects \cup {None}]
  BY DEF Everywhere, Nowhere
<1> QED BY <1>1

LEMMA IndexTaskType ==
  ASSUME index \in [Batches -> [Tasks -> Objects \cup {None}]], NEW b \in Batches, NEW t,
         NEW o \in Objects \cup {None}
  PROVE  [index EXCEPT ![b][t] = o] \in [Batches -> [Tasks -> Objects \cup {None}]]
<1>1. [index[b] EXCEPT ![t] = o] \in [Tasks -> Objects \cup {None}]
  OBVIOUS
<1> QED BY <1>1

\* Who is in a deadlock awaits a statement.
LEMMA DeadlockedWaits ==
  ASSUME NEW c \in Clients, Deadlocked(c)
  PROVE  \/ req[c].pc = "marking"
         \/ req[c].pc = "committing" /\ req[c].op = "delete"
<1>1. AwaitedBy(c) # {}
  BY {} \in SUBSET Clients DEF Deadlocked
<1> QED BY <1>1 DEF AwaitedBy, WaitsFor

\* The requests that end with this turn, and what they file.
LEMMA Returns ==
  ASSUME Sound, NEW c \in Clients,
         \/ CreateReturn(c) \/ RememberTask(c) \/ Fail(c) \/ Abandon(c) \/ Return(c)
         \/ ListReturn(c)
  PROVE  Regular(c) /\ Over(c) /\ UNCHANGED db
<1> DEFINE k == req[c].id
           o == req[c].obj
<1>a. req[c].pc # "idle" /\ Becomes(c, NoRequest) /\ UNCHANGED <<db, nextId, up, objs, restored>>
  <2> QED BY DeadlockedWaits
          DEF CreateReturn, RememberTask, Fail, Abandon, Return, ListReturn, history, memory, RolledBack
<1>b. up /\ Turn(c) /\ Stage(c)' /\ Sweeping(c)' /\ Over(c)
  BY <1>a, Ends DEF Over
<1>c. /\ index \in [Batches -> [Tasks -> Objects \cup {None}]] /\ settled \subseteq Batches
      /\ nextId \in 1..(NumBatches + 1) /\ k \in Batches /\ Stage(c)
  BY <1>a, SoundMeaning DEF Sound, Typed, Stage
<1>1. CASE CreateReturn(c)
  <2>1. o # None /\ o \in Objects
    BY <1>1, <1>c, SoundMeaning DEF CreateReturn, Stage
  <2>2. /\ cache' = Put(cache, k, o) /\ index' = [index EXCEPT ![k] = Everywhere(o)]
        /\ scheduled' = Enqueue(k, o) /\ UNCHANGED settled
    BY <1>1 DEF CreateReturn, Remembers, history
  <2> QED BY <1>a, <1>b, <1>c, <2>1, <2>2, SameRows, IndexType
          DEF Regular, CacheOf, ScheduleOf, Enqueue
<1>2. CASE RememberTask(c)
  <2>1. o \in Objects
    BY <1>2, <1>c, SoundMeaning DEF RememberTask, Stage
  <2>2. UNCHANGED <<cache, scheduled, settled>> /\ index' = [index EXCEPT ![k][req[c].at] = o]
    BY <1>2 DEF RememberTask, history
  <2> QED BY <1>a, <1>b, <1>c, <2>1, <2>2, SameRows, IndexTaskType DEF Regular, CacheOf, ScheduleOf
<1>3. CASE Fail(c) \/ Abandon(c)
  <2>1. UNCHANGED <<cache, scheduled, settled, index>>
    BY <1>3 DEF Fail, Abandon, history, memory
  <2> QED BY <1>a, <1>b, <1>c, <2>1, SameRows DEF Regular, CacheOf, ScheduleOf
<1>4. CASE Return(c)
  <2>1. o # None /\ o \in Objects
    BY <1>4, <1>c, SoundMeaning DEF Return, Stage
  <2>2. scheduled' = Without(scheduled, k) /\ settled' \subseteq Batches
    BY <1>4, <1>c DEF Return, Unscheduled
  <2>3. \/ cache' = Without(cache, k) /\ index' = [index EXCEPT ![k] = Nowhere]
        \/ cache' = Put(cache, k, o) /\ index' = [index EXCEPT ![k] = Everywhere(o)]
    BY <1>4 DEF Return, RemembersAfter, Forgets, Remembers
  <2>4. index' \in [Batches -> [Tasks -> Objects \cup {None}]]
    <3>1. CASE index' = [index EXCEPT ![k] = Nowhere]
      BY <1>c, <2>1, <3>1, IndexType
    <3>2. CASE index' = [index EXCEPT ![k] = Everywhere(o)]
      BY <1>c, <2>1, <3>2, IndexType
    <3> QED BY <2>3, <3>1, <3>2
  <2>5. CacheOf(c) /\ ScheduleOf(c)
    BY <2>1, <2>2, <2>3 DEF CacheOf, ScheduleOf
  <2> QED BY <1>a, <1>b, <1>c, <2>2, <2>4, <2>5, SameRows DEF Regular
<1>5. CASE ListReturn(c)
  <2>1. o # None /\ o \in Objects
    BY <1>5, <1>c, SoundMeaning DEF ListReturn, Stage
  <2>2. UNCHANGED <<scheduled, settled>>
    BY <1>5 DEF ListReturn, history
  <2>3. \/ k \in DOMAIN cache /\ cache' = Put(cache, k, cache[k])
           /\ index' = [index EXCEPT ![k] = Everywhere(cache[k])] /\ cache[k] \in Objects
        \/ cache' = Put(cache, k, o) /\ index' = [index EXCEPT ![k] = Everywhere(o)]
    BY <1>5, HeldIsNotFresh DEF ListReturn, Remembers, Kept
  <2>4. index' \in [Batches -> [Tasks -> Objects \cup {None}]]
    BY <1>c, <2>1, <2>3, IndexType
  <2>5. CacheOf(c) /\ ScheduleOf(c)
    BY <2>1, <2>2, <2>3 DEF CacheOf, ScheduleOf
  <2> QED BY <1>a, <1>b, <1>c, <2>2, <2>4, <2>5, SameRows DEF Regular
<1> QED BY <1>a, <1>b, <1>1, <1>2, <1>3, <1>4, <1>5


\* get_batch files what it read; a cancellation or deletion goes on in its loop.
LEMMA Remembering ==
  ASSUME Sound, NEW c \in Clients, Remember(c)
  PROVE  Regular(c) /\ (Over(c) \/ Proceeds(c))
<1>a. /\ req[c].pc = "loaded" /\ req[c].op # "task" /\ up /\ Stage(c)
      /\ req[c].obj # None /\ req[c].obj \in Objects
      /\ cache' = Put(cache, req[c].id, req[c].obj)
      /\ index' = [index EXCEPT ![req[c].id] = Everywhere(req[c].obj)]
      /\ UNCHANGED <<db, nextId, up, scheduled, restored, settled>>
  BY SoundMeaning DEF Remember, Remembers, history, Stage
<1>b. /\ Typed /\ index' \in [Batches -> [Tasks -> Objects \cup {None}]] /\ settled \subseteq Batches
      /\ nextId \in 1..(NumBatches + 1)
  BY <1>a, IndexType DEF Sound, Typed
<1>1. CASE Becomes(c, NoRequest) /\ UNCHANGED objs
  <2>1. Turn(c) /\ Stage(c)' /\ Sweeping(c)' /\ Over(c)
    BY <1>a, <1>1, Ends DEF Over
  <2> QED BY <1>a, <1>b, <2>1, SameRows DEF Regular, CacheOf, ScheduleOf
<1>2. CASE req[c].op # "get" /\ Sweep(c, req[c].op, req[c].id, req[c].obj, 1, {})
  <2>1. PICK op, b, o : op = req[c].op /\ b = req[c].id /\ o = req[c].obj
    OBVIOUS
  <2>2. Sweep(c, op, b, o, 1, {})
    BY <1>2, <2>1
  <2>3. /\ op \in {"cancel", "delete"} \cap Ops /\ b \in Batches /\ o \in Objects /\ b \in Known
        /\ objs[o].id = b /\ ~Fresh(o)
    BY <1>a, <1>2, <2>1, HeldIsNotFresh, OpsAssumption DEF Stage
  <2>4. Advances(c, op, b, o, {})
    <3>1. \A t \in OpenIn(objs[o].status) : t >= 1
      BY BoundsAssumption DEF OpenIn, Tasks
    <3> QED BY <2>2, <2>3, <3>1, SweepFacts, SoundMeaning
  <2>5. Turn(c)
    BY <1>a, <2>3, <2>4 DEF Turn, Advances
  <2>6. Stage(c)'
    BY <1>a, <2>3, <2>4, NoneAssumption DEF Stage, Advances, Sweeps, Known
  <2>7. Proceeds(c)
    <3>1. Touched(c) = {}
      BY <1>a, SoundMeaning DEF Sweeping, Sweeps, Touched
    <3> QED BY <1>a, <2>1, <2>3, <2>4, <3>1 DEF Proceeds, Advances, Sweeps
  <2> QED BY <1>a, <1>b, <2>4, <2>5, <2>6, <2>7, SameRows
          DEF Regular, CacheOf, ScheduleOf, Advances
<1> QED BY <1>1, <1>2 DEF Remember

\* The statement returns: the row is written, unless it is cancelled already.
LEMMA Updating ==
  ASSUME Sound, NEW c \in Clients, Updated(c)
  PROVE  Regular(c) /\ Proceeds(c)
<1>a. /\ req[c].pc = "marking" /\ up /\ Stage(c) /\ Sweeping(c) /\ req[c] \in Requests
      /\ req[c].obj # None /\ req[c].obj \in Objects
      /\ UNCHANGED <<db, nextId, up, cache, index, scheduled, restored, settled>>
  BY SoundMeaning DEF Updated, history, Stage
<1>b. /\ Typed /\ index \in [Batches -> [Tasks -> Objects \cup {None}]] /\ settled \subseteq Batches
      /\ nextId \in 1..(NumBatches + 1) /\ \A t \in Tasks : t \in Nat
  BY BoundsAssumption DEF Sound, Typed, Tasks
<1>1. PICK op, b, o, at, dirty :
        /\ op = req[c].op /\ b = req[c].id /\ o = req[c].obj /\ at = req[c].at
        /\ dirty = req[c].dirty \cup (IF db[req[c].id][req[c].at] = "cancelled" THEN {} ELSE {req[c].at})
  OBVIOUS
<1>2. Sweep(c, op, b, o, at + 1, dirty)
  BY <1>1 DEF Updated
<1>3. /\ op \in {"cancel", "delete"} \cap Ops /\ b \in Batches /\ o \in Objects /\ b \in Known
      /\ objs[o].id = b /\ ~Fresh(o) /\ at \in Tasks /\ dirty \in SUBSET Tasks
  BY <1>a, <1>1, HeldIsNotFresh DEF Stage, Sweeps, Sweeping, Requests
<1>4. Advances(c, op, b, o, dirty)
  <2>1. \A t \in OpenIn(objs[o].status) : t >= at + 1
    <3>1. \A t \in OpenIn(objs[o].status) : t \in Tasks /\ t > at
      BY <1>a, <1>1 DEF Sweeping, OpenCopy, OpenIn
    <3> QED BY <1>b, <1>3, <3>1
  <2>2. \A t \in dirty : t < at + 1
    <3>1. \A t \in dirty : t = at \/ t < at
      BY <1>a, <1>1 DEF Sweeping
    <3> QED BY <1>b, <1>3, <3>1
  <2>3. at + 1 \in Nat
    BY <1>b, <1>3
  <2> QED BY <1>2, <1>3, <2>1, <2>2, <2>3, SweepFacts, SoundMeaning
<1>5. Turn(c)
  BY <1>a, <1>3, <1>4 DEF Turn, Advances
<1>6. Stage(c)'
  BY <1>a, <1>3, <1>4, NoneAssumption DEF Stage, Advances, Sweeps, Known
<1>7. \A t \in Touched(c) : t \in Touched(c)' \/ db[req[c].id][t] = "cancelled"
  BY <1>1, <1>4 DEF Touched, Advances
<1>8. Proceeds(c)
  <2>1. \A t \in Touched(c) : t \in Touched(c)' \/ t \notin OpenRow(req[c].id)'
    BY <1>a, <1>1, <1>4, <1>7 DEF OpenRow, OpenIn, Advances
  <2>2. dirty \subseteq Touched(c)
    BY <1>a, <1>1, <1>3 DEF Touched
  <2>3. Sweeps(c) /\ Sweeps(c)' /\ o = req'[c].obj
    BY <1>a, <1>4 DEF Sweeps, Advances
  <2>4. \A t \in Touched(c)' : t \in Touched(c) \/ objs[o].status[t] = "open"
    BY <1>4, <2>2 DEF Advances
  <2> QED BY <1>1, <1>3, <1>4, <2>1, <2>3, <2>4 DEF Proceeds, Advances
<1> QED BY <1>a, <1>b, <1>1, <1>4, <1>5, <1>6, <1>8, SameRows
        DEF Regular, CacheOf, ScheduleOf, Advances

\* The commits: what is written is finished from then on, or gone.
LEMMA Commits ==
  ASSUME Sound, NEW c \in Clients, CommitCancel(c) \/ CommitDelete(c)
  PROVE  /\ Regular(c) /\ Proceeds(c) /\ UNCHANGED <<cache, index, scheduled, objs>>
         /\ req[c].pc = "committing" /\ req'[c].pc = "committed"
         /\ req'[c].op = req[c].op /\ req'[c].id = req[c].id /\ req'[c].obj = req[c].obj
         /\ \A b \in DOMAIN db' : b \in DOMAIN db /\ (b # req[c].id => db'[b] = db[b])
         /\ req[c].id \in DOMAIN db' => OpenIn(db'[req[c].id]) = OpenIn(db[req[c].id]) \ Touched(c)
         /\ req[c].op = "delete" => req[c].id \notin DOMAIN db'
<1> DEFINE k == req[c].id
           q == [req[c] EXCEPT !.pc = "committed", !.dirty = {}]
<1>a. /\ req[c].pc = "committing" /\ up /\ Stage(c) /\ Sweeping(c) /\ req[c] \in Requests
      /\ req[c].obj # None /\ k \in Batches /\ k \in Known
      /\ UNCHANGED <<nextId, up, cache, index, scheduled, objs, restored, settled>>
      /\ req' = [req EXCEPT ![c] = q]
  BY SoundMeaning DEF CommitCancel, CommitDelete, history, memory, Stage, Becomes
<1>b. /\ Typed /\ index \in [Batches -> [Tasks -> Objects \cup {None}]] /\ settled \subseteq Batches
      /\ nextId \in 1..(NumBatches + 1)
  BY DEF Sound, Typed
<1>1. /\ q \in Requests /\ q.pc = "committed" /\ q.dirty = {} /\ q.op = req[c].op /\ q.id = k
      /\ q.obj = req[c].obj
  BY <1>a DEF Requests, Places
<1> HIDE DEF q
<1>2. Turn(c) /\ req'[c] = q
  <2>1. PICK r : r = q
    OBVIOUS
  <2> QED BY <1>a, <1>1, <2>1, Moves
<1>3. /\ \A b \in DOMAIN db' : b \in DOMAIN db /\ (b # k => db'[b] = db[b])
      /\ k \in DOMAIN db' => OpenIn(db'[k]) = OpenIn(db[k]) \ Touched(c)
      /\ req[c].op = "delete" => k \notin DOMAIN db'
      /\ db' \in [DOMAIN db' -> [Tasks -> Statuses]]
  <2>1. CASE CommitDelete(c)
    <3>1. db' = Without(db, k) /\ req[c].op = "delete"
      BY <2>1 DEF CommitDelete
    <3> QED BY <3>1, SoundMeaning DEF Without, Restrict
  <2>2. CASE CommitCancel(c) /\ k \in DOMAIN db
    <3>1. db' = [db EXCEPT ![k] = Written(req[c])] /\ req[c].op = "cancel"
      BY <2>2 DEF CommitCancel
    <3>2. db[k] \in [Tasks -> Statuses]
      BY <2>2, SoundMeaning
    <3>3. /\ Written(req[c]) \in [Tasks -> Statuses]
          /\ \A t \in Tasks : Written(req[c])[t] = IF t \in req[c].dirty THEN "cancelled" ELSE db[k][t]
      BY <3>2 DEF Written, Statuses
    <3>4. DOMAIN db' = DOMAIN db /\ db'[k] = Written(req[c]) /\ \A b \in DOMAIN db : b # k => db'[b] = db[b]
      BY <2>2, <3>1
    <3>5. Touched(c) = req[c].dirty
      BY <1>a DEF Touched, Requests
    <3>6. OpenIn(db'[k]) = OpenIn(db[k]) \ Touched(c)
      BY <3>3, <3>4, <3>5 DEF OpenIn
    <3>7. db' \in [DOMAIN db' -> [Tasks -> Statuses]]
      BY <3>1, <3>3, SoundMeaning
    <3> QED BY <3>1, <3>4, <3>6, <3>7
  <2>3. CASE CommitCancel(c) /\ k \notin DOMAIN db
    BY <2>3, SoundMeaning DEF CommitCancel
  <2> QED BY <2>1, <2>2, <2>3
<1>4. Rows
  BY <1>3 DEF Rows
<1>5. Stage(c)'
  BY <1>a, <1>1, <1>2, <1>3 DEF Stage, Sweeps, Known
<1>6. Sweeping(c)'
  BY <1>a, <1>1, <1>2 DEF Sweeping, Sweeps, OpenCopy
<1>7. Proceeds(c)
  <2>1. \A t \in Touched(c) : t \notin OpenRow(req[c].id)'
    BY <1>1, <1>2, <1>3 DEF OpenRow
  <2>2. Touched(c)' = {} /\ Sweeps(c) /\ Sweeps(c)'
    BY <1>a, <1>1, <1>2 DEF Touched, Sweeps
  <2>3. req[c].obj \in Objects /\ ~Fresh(req[c].obj)
    BY <1>a, SoundMeaning, HeldIsNotFresh
  <2> QED BY <1>a, <1>1, <1>2, <2>1, <2>2, <2>3 DEF Proceeds
<1> QED BY <1>a, <1>b, <1>1, <1>2, <1>3, <1>4, <1>5, <1>6, <1>7 DEF Regular, CacheOf, ScheduleOf

LEMMA EveryTurnIsRegular ==
  ASSUME Sound, NEW c \in Clients, Client(c)
  PROVE  Regular(c) /\ (Over(c) \/ Asks(c) \/ Obtains(c) \/ Proceeds(c))
BY Starts, Reads, Remembering, Returns, Updating, Commits DEF Client


-----------------------------------------------------------------------------
(* Starts and crashes of the process.                                       *)

LEMMA SoundInit == ASSUME Init PROVE Sound
<1>1. NumBatches \in Nat /\ nextId \in 1..(NumBatches + 1) /\ DOMAIN db = 1..(nextId - 1)
      /\ db \in [1..(nextId - 1) -> [Tasks -> {"open", "done"}]]
  BY BoundsAssumption DEF Init
<1>2. NoRequest \in Requests
  BY DEF NoRequest, Requests, Places
<1>3. Typed
  BY <1>1, <1>2 DEF Init, Typed, Known, Statuses, Unused, Entities, Nowhere, Batches
<1>4. Filed /\ Stopped
  BY DEF Init, Filed, Stopped
<1>5. \A c \in Clients : Stage(c) /\ Sweeping(c)
  BY NoneAssumption, OpsAssumption DEF Init, Stage, Sweeping, Sweeps, NoRequest, Touched, None
<1> QED BY <1>3, <1>4, <1>5 DEF Sound

\* What a restoration leaves: each batch is cached as the database has it, and scheduled
\* with its open tasks if there are any.
LEMMA Restoring ==
  ASSUME Sound, Restore
  PROVE  /\ ~up /\ up' /\ restored' = DOMAIN db /\ UNCHANGED <<db, nextId, req, settled>>
         /\ \A c \in Clients : req[c] = NoRequest
         /\ DOMAIN cache' = DOMAIN db
         /\ \A b \in DOMAIN db : cache'[b] \in Objects /\ objs'[cache'[b]] = [id |-> b, status |-> db[b]]
         /\ \A b \in Batches, t \in Tasks : index'[b][t] = IF b \in DOMAIN db THEN cache'[b] ELSE None
         /\ \A b \in Batches : b \notin DOMAIN db => index'[b] = Nowhere
         /\ index' \in [Batches -> [Tasks -> Objects \cup {None}]]
         /\ objs' \in [Objects -> Entities]
         /\ DOMAIN scheduled' = {b \in DOMAIN db : OpenIn(db[b]) # {}}
         /\ \A b \in DOMAIN scheduled' : scheduled'[b] = [obj |-> cache'[b], tasks |-> OpenIn(db[b])]
<1>1. /\ ~up /\ up' = TRUE /\ restored' = DOMAIN db /\ UNCHANGED <<db, nextId, req, settled>>
  BY DEF Restore
<1>2. PICK new \in Injection(DOMAIN db, Objects) :
       /\ cache' = new
       /\ index' = [b \in Batches |-> IF b \in DOMAIN db THEN Everywhere(new[b]) ELSE Nowhere]
       /\ objs' = [o \in Objects |->
                     IF \E b \in DOMAIN db : new[b] = o
                     THEN LET b == CHOOSE b \in DOMAIN db : new[b] = o
                          IN  [id |-> b, status |-> db[b]]
                     ELSE Unused]
       /\ scheduled' = [b \in {x \in DOMAIN db : OpenIn(db[x]) # {}} |->
                          [obj |-> new[b], tasks |-> OpenIn(db[b])]]
  BY DEF Restore
<1>3. /\ new \in [DOMAIN db -> Objects]
      /\ \A a, b \in DOMAIN db : new[a] = new[b] => a = b
  BY DEF Injection, IsInjective
<1>4. \A b \in DOMAIN db : new[b] \in Objects /\ objs'[new[b]] = [id |-> b, status |-> db[b]]
  <2> TAKE b \in DOMAIN db
  <2>1. (CHOOSE a \in DOMAIN db : new[a] = new[b]) = b
    BY <1>3
  <2> QED BY <1>2, <1>3, <2>1
<1>5. objs' \in [Objects -> Entities]
  <2>1. \A b \in DOMAIN db : [id |-> b, status |-> db[b]] \in Entities
    BY SoundMeaning DEF Entities
  <2>2. Unused \in Entities
    BY DEF Unused, Entities, Statuses
  <2>3. \A o \in Objects : objs'[o] \in Entities
    BY <1>2, <2>1, <2>2
  <2> QED BY <1>2, <2>3
<1>6. \A c \in Clients : req[c] = NoRequest
  BY <1>1, SoundMeaning DEF Stage
<1>7. index' \in [Batches -> [Tasks -> Objects \cup {None}]]
  BY <1>2, <1>3 DEF Everywhere, Nowhere
<1>8. /\ DOMAIN cache' = DOMAIN db
      /\ \A b \in DOMAIN db : cache'[b] \in Objects /\ objs'[cache'[b]] = [id |-> b, status |-> db[b]]
      /\ \A b \in Batches, t \in Tasks : index'[b][t] = IF b \in DOMAIN db THEN cache'[b] ELSE None
      /\ \A b \in Batches : b \notin DOMAIN db => index'[b] = Nowhere
  BY <1>2, <1>3, <1>4 DEF Everywhere, Nowhere
<1>9. /\ DOMAIN scheduled' = {b \in DOMAIN db : OpenIn(db[b]) # {}}
      /\ \A b \in DOMAIN scheduled' : scheduled'[b] = [obj |-> cache'[b], tasks |-> OpenIn(db[b])]
  BY <1>2, <1>8
<1> QED BY <1>1, <1>5, <1>6, <1>7, <1>8, <1>9

\* What a crash leaves.
LEMMA Crashing ==
  ASSUME Sound, Crash
  PROVE  /\ ~up' /\ UNCHANGED <<db, nextId, settled>>
         /\ Stopped' /\ objs' \in [Objects -> Entities]
         /\ req' \in [Clients -> Requests] /\ \A c \in Clients : req'[c] = NoRequest
<1>1. NoRequest \in Requests /\ Unused \in Entities
  BY DEF NoRequest, Requests, Places, Unused, Entities, Statuses
<1> QED BY <1>1 DEF Crash, Stopped

LEMMA SoundStep == ASSUME Sound, [Next]_vars PROVE Sound'
<1>1. CASE Restore
  <2> DEFINE D == DOMAIN db
  <2>a. /\ ~up /\ up' /\ restored' = D /\ UNCHANGED <<db, nextId, req, settled>>
        /\ \A c \in Clients : req[c] = NoRequest
        /\ DOMAIN cache' = D
        /\ index' \in [Batches -> [Tasks -> Objects \cup {None}]]
        /\ objs' \in [Objects -> Entities]
        /\ DOMAIN scheduled' = {b \in D : OpenIn(db[b]) # {}}
        /\ \A b \in DOMAIN scheduled' : scheduled'[b] = [obj |-> cache'[b], tasks |-> OpenIn(db[b])]
    BY <1>1, Restoring
  <2>b. \A b \in D : cache'[b] \in Objects /\ objs'[cache'[b]].id = b
    <3> TAKE b \in D
    <3>1. cache'[b] \in Objects /\ objs'[cache'[b]] = [id |-> b, status |-> db[b]]
      BY <1>1, Restoring
    <3>2. PICK e : e = objs'[cache'[b]]
      OBVIOUS
    <3> QED BY <3>1, <3>2
  <2>1. /\ ~up /\ up' /\ restored' = D /\ UNCHANGED <<db, nextId, req, settled>>
        /\ \A c \in Clients : req[c] = NoRequest
        /\ DOMAIN cache' = D
        /\ \A b \in D : cache'[b] \in Objects /\ objs'[cache'[b]].id = b
        /\ index' \in [Batches -> [Tasks -> Objects \cup {None}]]
        /\ objs' \in [Objects -> Entities]
        /\ DOMAIN scheduled' \subseteq D
        /\ \A b \in DOMAIN scheduled' : /\ scheduled'[b].obj = cache'[b]
                                        /\ scheduled'[b] \in [obj : Objects, tasks : SUBSET Tasks]
    <3>1. ASSUME NEW b \in DOMAIN scheduled'
          PROVE  /\ b \in D /\ scheduled'[b].obj = cache'[b]
                 /\ scheduled'[b] \in [obj : Objects, tasks : SUBSET Tasks]
      <4>1. /\ b \in D /\ OpenIn(db[b]) \subseteq Tasks /\ cache'[b] \in Objects
            /\ scheduled'[b] = [obj |-> cache'[b], tasks |-> OpenIn(db[b])]
        BY <2>a, <2>b DEF OpenIn
      <4> HIDE DEF D
      <4> QED BY <4>1
    <3> QED BY <2>a, <2>b, <3>1
  <2>2. cache' = [b \in D |-> cache'[b]] /\ scheduled' = [b \in DOMAIN scheduled' |-> scheduled'[b]]
    BY <1>1 DEF Restore, Injection
  <2>3. Typed' /\ D \subseteq Known'
    BY <2>1, SoundMeaning DEF Typed, Known, Sound
  <2>4. Filed'
    BY <2>1, <2>2, <2>3 DEF Filed
  <2>5. \A c \in Clients : Stage(c)' /\ Sweeping(c)'
    BY <2>1, NoneAssumption, OpsAssumption DEF Stage, Sweeping, Sweeps, NoRequest, Touched, None
  <2> QED BY <2>1, <2>3, <2>4, <2>5 DEF Sound
<1>2. CASE Crash
  <2>1. /\ ~up' /\ UNCHANGED <<db, nextId, settled>>
        /\ Stopped' /\ objs' \in [Objects -> Entities]
        /\ req' \in [Clients -> Requests] /\ \A c \in Clients : req'[c] = NoRequest
    BY <1>2, Crashing
  <2>2. up' \in BOOLEAN /\ cache' = [b \in {} |-> None] /\ scheduled' = [b \in {} |-> None]
    BY <1>2 DEF Crash
  <2>3. Typed'
    BY <2>1, <2>2, SoundMeaning DEF Typed, Known, Sound, Stopped, Nowhere
  <2>4. Filed'
    BY <2>2 DEF Filed
  <2>5. \A c \in Clients : Stage(c)' /\ Sweeping(c)'
    BY <2>1, NoneAssumption, OpsAssumption DEF Stage, Sweeping, Sweeps, NoRequest, Touched, None
  <2> QED BY <2>1, <2>3, <2>4, <2>5 DEF Sound
<1>3. ASSUME NEW c \in Clients, Client(c) PROVE Sound'
  <2>1. Regular(c)
    BY <1>3, EveryTurnIsRegular
  <2> QED BY <2>1, TurnIsSound DEF Regular
<1>4. CASE UNCHANGED vars
  <2>1. UNCHANGED <<db, nextId, up, cache, index, scheduled, objs, req, restored, settled>>
    BY <1>4 DEF vars, memory, history
  <2>2. Known' = Known /\ (Typed => Typed') /\ (Filed => Filed') /\ (Stopped => Stopped')
    BY <2>1 DEF Typed, Filed, Stopped, Known
  <2>3. ASSUME NEW c \in Clients PROVE (Stage(c) => Stage(c)') /\ (Sweeping(c) => Sweeping(c)')
    <3>1. (Sweeps(c))' = Sweeps(c) /\ (Touched(c))' = Touched(c) /\ (OpenCopy(c))' = OpenCopy(c)
      BY <2>1 DEF Sweeps, Touched, OpenCopy
    <3> QED BY <2>1, <2>2, <3>1 DEF Stage, Sweeping
  <2> QED BY <2>1, <2>2, <2>3 DEF Sound
<1> QED BY <1>1, <1>2, <1>3, <1>4 DEF Next

LEMMA AlwaysSound == Spec => []Sound
BY SoundInit, SoundStep, PTL DEF Spec

\* Every variable of the service has its type, and cache, scheduler and requests have
\* entities of the batches they stand for.
THEOREM TasksTyped == Spec => []TypeOK
<1>1. Sound => TypeOK
  <2> SUFFICES ASSUME Sound PROVE TypeOK
    OBVIOUS
  <2>1. /\ Typed /\ Filed /\ Known \subseteq Batches /\ \A c \in Clients : Stage(c) /\ req[c] \in Requests
    BY SoundMeaning DEF Sound
  <2>2. \A c \in Clients : req[c].pc \in Places
    BY <2>1 DEF Requests
  <2>3. \A c \in Clients :
           /\ req[c].pc # "idle" => up /\ req[c].op \in Ops /\ req[c].id \in Batches
           /\ req[c].pc \notin {"idle", "loading"} => objs[req[c].obj].id = req[c].id
    BY <2>1 DEF Stage
  <2> QED BY <2>1, <2>2, <2>3 DEF Typed, Filed, TypeOK, Known, Entities
<1> QED BY <1>1, AlwaysSound, PTL


-----------------------------------------------------------------------------
(* The gRPC methods over the service.                                       *)

LEMMA GrpcStep == ASSUME [GrpcNext]_<<vars, told>> PROVE [Next]_vars
<1>1. ASSUME NEW c \in Clients, Method(c) PROVE Client(c)
  BY <1>1 DEF Method, SubmitBatch, GetBatch, GetTask, ListBatches, CancelBatch, DeleteBatch, Client
<1>2. ASSUME NEW c \in Clients, Works(c) \/ Answers(c) PROVE Client(c)
  BY <1>2 DEF Works, Answers, Missing, Raises, Client
<1> QED BY <1>1, <1>2 DEF GrpcNext, Next

\* Whatever the methods do, the service under them does by its own operations: what
\* holds of TaskService in general holds of it behind TaskGrpcServiceImpl.
THEOREM GrpcImplementsService == GrpcSpec => Spec
BY GrpcStep, PTL DEF GrpcSpec, GrpcInit, Spec


-----------------------------------------------------------------------------
(* What a turn does to the cache, the scheduler and the rows, batch by batch. *)

CachedAlike(b) == (b \in DOMAIN cache' <=> b \in DOMAIN cache) /\ (b \in DOMAIN cache => cache'[b] = cache[b])
\* c files the entity it holds ...
FilesIts(c, b) ==
  /\ b = req[c].id /\ req[c].obj # None /\ b \in DOMAIN cache' /\ cache'[b] = req[c].obj
  /\ \/ CreateReturn(c) \/ Remember(c)
     \/ Return(c) /\ req[c].op = "cancel"
     \/ ListReturn(c) /\ b \notin DOMAIN cache
\* ... or has deleted the batch.
Drops(c, b) == b = req[c].id /\ b \notin DOMAIN cache' /\ Return(c) /\ req[c].op = "delete"

LEMMA Filing ==
  ASSUME Sound, NEW c \in Clients, Client(c), NEW b \in Batches
  PROVE  CachedAlike(b) \/ FilesIts(c, b) \/ Drops(c, b)
<1>1. UNCHANGED cache \/ CreateReturn(c) \/ Remember(c) \/ Return(c) \/ ListReturn(c)
  BY DEF Client, Create, Begin, BeginLoad, BeginTask, List, Load, RememberTask, Updated, Fail,
         Abandon, CommitCancel, CommitDelete, memory
<1>2. req[c].obj = None <=> req[c].pc \in {"idle", "loading"}
  BY SoundMeaning DEF Stage
<1>3. CASE UNCHANGED cache
  BY <1>3 DEF CachedAlike
<1>4. CASE CreateReturn(c) \/ Remember(c)
  <2>1. cache' = Put(cache, req[c].id, req[c].obj) /\ req[c].obj # None
    BY <1>2, <1>4 DEF CreateReturn, Remember, Remembers
  <2> QED BY <1>4, <2>1 DEF Put, CachedAlike, FilesIts
<1>5. CASE Return(c)
  <2>1. req[c].obj # None /\ req[c].op \in {"cancel", "delete"}
    BY <1>2, <1>5, SoundMeaning DEF Return, Stage, Sweeps
  <2>2. CASE req[c].op = "delete"
    <3>1. cache' = Without(cache, req[c].id)
      BY <1>5, <2>2 DEF Return, RemembersAfter, Forgets
    <3> QED BY <1>5, <2>2, <3>1 DEF Without, Restrict, CachedAlike, Drops
  <2>3. CASE req[c].op = "cancel"
    <3>1. cache' = Put(cache, req[c].id, req[c].obj)
      BY <1>5, <2>3 DEF Return, RemembersAfter, Remembers
    <3> QED BY <1>5, <2>1, <2>3, <3>1 DEF Put, CachedAlike, FilesIts
  <2> QED BY <2>1, <2>2, <2>3
<1>6. CASE ListReturn(c)
  <2>1. cache' = Put(cache, req[c].id, Kept(req[c])) /\ req[c].obj # None
    BY <1>2, <1>6 DEF ListReturn, Remembers
  <2> QED BY <1>6, <2>1 DEF Put, Kept, CachedAlike, FilesIts
<1> QED BY <1>1, <1>3, <1>4, <1>5, <1>6

ScheduledAlike(b) ==
  /\ b \in DOMAIN scheduled' <=> b \in DOMAIN scheduled
  /\ b \in DOMAIN scheduled => scheduled'[b] = scheduled[b]
\* c schedules the batch it has created, with all its tasks ...
Schedules(c, b) ==
  /\ b = req[c].id /\ CreateReturn(c) /\ b \notin DOMAIN scheduled
  /\ b \in DOMAIN scheduled' /\ scheduled'[b] = [obj |-> req[c].obj, tasks |-> Tasks]
\* ... or has cancelled or deleted the batch.
Unschedules(c, b) == b = req[c].id /\ Return(c) /\ b \notin DOMAIN scheduled'

LEMMA Scheduling ==
  ASSUME Sound, NEW c \in Clients, Client(c), NEW b \in Batches
  PROVE  /\ ScheduledAlike(b) \/ Schedules(c, b) \/ Unschedules(c, b)
         /\ CreateReturn(c) /\ b = req[c].id => b \in DOMAIN scheduled'
<1>1. UNCHANGED scheduled \/ CreateReturn(c) \/ Return(c)
  BY DEF Client, Create, Begin, BeginLoad, BeginTask, List, Load, Remember, RememberTask, Updated,
         Fail, Abandon, CommitCancel, CommitDelete, ListReturn, memory
<1>2. CASE UNCHANGED scheduled /\ ~CreateReturn(c)
  BY <1>2 DEF ScheduledAlike
<1>3. CASE CreateReturn(c)
  <2>1. scheduled' = Enqueue(req[c].id, req[c].obj)
    BY <1>3 DEF CreateReturn
  <2>2. CASE req[c].id \in DOMAIN scheduled
    BY <2>1, <2>2 DEF Enqueue, ScheduledAlike
  <2>3. CASE req[c].id \notin DOMAIN scheduled
    <3>1. scheduled' = Put(scheduled, req[c].id, [obj |-> req[c].obj, tasks |-> Tasks])
      BY <2>1, <2>3 DEF Enqueue
    <3>2. PICK e : e = [obj |-> req[c].obj, tasks |-> Tasks]
      OBVIOUS
    <3> QED BY <1>3, <2>3, <3>1, <3>2 DEF Put, ScheduledAlike, Schedules
  <2> QED BY <2>2, <2>3
<1>4. CASE Return(c)
  <2>1. scheduled' = Without(scheduled, req[c].id) /\ req[c].pc = "committed"
    BY <1>4 DEF Return, Unscheduled
  <2>2. ~CreateReturn(c)
    BY <2>1 DEF CreateReturn
  <2> QED BY <1>4, <2>1, <2>2 DEF Without, Restrict, ScheduledAlike, Unschedules
<1> QED BY <1>1, <1>2, <1>3, <1>4

RowAlike(b) == b \in DOMAIN db /\ db'[b] = db[b]
\* c writes what it has marked.
Writes(c, b) ==
  /\ b = req[c].id /\ CommitCancel(c) /\ b \in DOMAIN db
  /\ OpenIn(db'[b]) = OpenIn(db[b]) \ Touched(c)

LEMMA Writing ==
  ASSUME Sound, NEW c \in Clients, Client(c), NEW b \in Batches
  PROVE  /\ b \in DOMAIN db' => RowAlike(b) \/ Writes(c, b) \/ (Create(c) /\ b = nextId)
         /\ b \in DOMAIN db /\ b \notin DOMAIN db' => CommitDelete(c) /\ b = req[c].id
<1>1. UNCHANGED db \/ Create(c) \/ CommitCancel(c) \/ CommitDelete(c)
  BY DEF Client, CreateReturn, Begin, BeginLoad, BeginTask, List, Load, Remember, RememberTask,
         Updated, Fail, Abandon, Return, ListReturn, memory
<1>2. CASE UNCHANGED db
  BY <1>2 DEF RowAlike
<1>3. CASE Create(c)
  BY <1>3 DEF Create, Put, RowAlike
<1>4. CASE CommitCancel(c)
  <2>1. /\ \A a \in DOMAIN db' : a \in DOMAIN db /\ (a # req[c].id => db'[a] = db[a])
        /\ req[c].id \in DOMAIN db' => OpenIn(db'[req[c].id]) = OpenIn(db[req[c].id]) \ Touched(c)
    BY <1>4, Commits
  <2>2. DOMAIN db' = DOMAIN db
    BY <1>4 DEF CommitCancel
  <2> QED BY <1>4, <2>1, <2>2 DEF RowAlike, Writes
<1>5. CASE CommitDelete(c)
  BY <1>5 DEF CommitDelete, Without, Restrict, RowAlike
<1> QED BY <1>1, <1>2, <1>3, <1>4, <1>5


-----------------------------------------------------------------------------
(* The batches that were there when the service started have one entity.    *)

\* A batch that is being created is nobody else's, and not scheduled yet.
Unborn ==
  \A c \in Clients : req[c].pc = "created" =>
    /\ req[c].id \notin DOMAIN scheduled /\ req[c].id \notin restored
    /\ \A d \in Clients : req[d].pc = "created" /\ req[d].id = req[c].id => d = c

\* Only the cached entity of b is worked on, and each of its tasks by one request at most.
Sole(b) ==
  /\ b \in DOMAIN cache /\ OpenIn(objs[cache[b]].status) \subseteq OpenRow(b)
  /\ \A c \in Clients : req[c].id = b =>
       req[c].op \in {"task", "list"} \/ (Sweeps(c) /\ req[c].obj = cache[b])
  /\ \A c, d \in Clients : c # d /\ req[c].id = b /\ req[d].id = b => Touched(c) \cap Touched(d) = {}
Single == \A b \in restored \cap DOMAIN db : Sole(b)

LEMMA UnbornTurn ==
  ASSUME Sound, Unborn, NEW c \in Clients, Client(c)
  PROVE  Unborn'
<1>1. Turn(c) /\ (Over(c) \/ Asks(c) \/ Obtains(c) \/ Proceeds(c))
  BY EveryTurnIsRegular DEF Regular
<1>2. \A d \in Clients : req[d].pc = "created" => req[d].id \in Known /\ req[d].id \in Batches
  BY SoundMeaning, NoneAssumption DEF Stage
<1>3. nextId \notin Known
  BY SoundMeaning DEF Known
<1>4. req'[c].pc = "created" => Create(c) /\ req'[c].id = nextId /\ UNCHANGED scheduled
  BY <1>1 DEF Over, Asks, Obtains, Proceeds, Sweeps, NoRequest
<1> SUFFICES ASSUME NEW d \in Clients, req'[d].pc = "created"
             PROVE  /\ req'[d].id \notin DOMAIN scheduled' /\ req'[d].id \notin restored'
                    /\ \A e \in Clients : req'[e].pc = "created" /\ req'[e].id = req'[d].id => e = d
  BY DEF Unborn
<1>5. CASE d = c
  <2>1. nextId \notin DOMAIN scheduled /\ nextId \notin restored
    BY <1>3 DEF Sound, Typed, Filed
  <2> QED BY <1>1, <1>2, <1>3, <1>4, <1>5, <2>1 DEF Turn
<1>6. CASE d # c
  <2>1. req'[d] = req[d] /\ restored' = restored /\ \A e \in Clients : e # c => req'[e] = req[e]
    BY <1>1, <1>6 DEF Turn
  <2>2. PICK b \in Batches : b = req[d].id
    BY <1>2, <2>1
  <2>3. b \notin DOMAIN scheduled /\ b \notin restored /\ b \in Known
    BY <1>2, <2>1, <2>2 DEF Unborn
  <2>4. b \notin DOMAIN scheduled'
    <3>1. ~Schedules(c, b)
      BY <1>6, <2>1, <2>2 DEF Schedules, CreateReturn, Unborn
    <3> QED BY <2>3, <3>1, Scheduling DEF ScheduledAlike, Unschedules
  <2>5. ASSUME NEW e \in Clients, req'[e].pc = "created", req'[e].id = b PROVE e = d
    <3>1. e # c
      BY <1>3, <1>4, <2>3, <2>5
    <3> QED BY <2>1, <2>2, <2>5, <3>1 DEF Unborn
  <2> QED BY <2>1, <2>2, <2>3, <2>4, <2>5
<1> QED BY <1>5, <1>6

\* What c files is the entity that is cached already.
LEMMA SoleIsKept ==
  ASSUME Sound, Unborn, NEW c \in Clients, Client(c), NEW b \in restored \cap DOMAIN db, Sole(b),
         b \in DOMAIN db'
  PROVE  /\ b \in Batches /\ CachedAlike(b)
         /\ RowAlike(b) \/ Writes(c, b)
<1>1. b \in Batches /\ b \in Known /\ b # nextId
  BY SoundMeaning DEF Sound, Typed, Known
<1>2. CachedAlike(b)
  <2>1. CASE FilesIts(c, b)
    <3>1. ~CreateReturn(c)
      BY <2>1 DEF FilesIts, CreateReturn, Unborn
    <3>2. ~Remember(c)
      <4>1. ASSUME Remember(c) PROVE FALSE
        <5>1. req[c].pc = "loaded" /\ req[c].op # "task" /\ req[c].id = b /\ Stage(c)
          BY <2>1, <4>1, SoundMeaning DEF FilesIts, Remember
        <5> QED BY <5>1 DEF Sole, Sweeps, Stage
      <4> QED BY <4>1
    <3>3. ASSUME Return(c) PROVE CachedAlike(b)
      <4>1. req[c].pc = "committed" /\ req[c].id = b /\ Stage(c)
        BY <2>1, <3>3, SoundMeaning DEF FilesIts, Return
      <4>2. req[c].obj = cache[b]
        BY <4>1 DEF Sole, Stage, Sweeps
      <4> QED BY <2>1, <4>2 DEF FilesIts, CachedAlike, Sole
    <3> QED BY <2>1, <3>1, <3>2, <3>3 DEF FilesIts, Sole
  <2>2. CASE Drops(c, b)
    BY <2>2, SoundMeaning DEF Drops, Return, Stage
  <2> QED BY <1>1, <2>1, <2>2, Filing
<1> QED BY <1>1, <1>2, Writing

LEMMA SoleTurn ==
  ASSUME Sound, Unborn, NEW c \in Clients, Client(c), NEW b \in restored \cap DOMAIN db, Sole(b),
         b \in DOMAIN db'
  PROVE  Sole(b)'
<1>1. /\ Turn(c) /\ (Over(c) \/ Asks(c) \/ Obtains(c) \/ Proceeds(c))
      /\ b \in Batches /\ CachedAlike(b) /\ (RowAlike(b) \/ Writes(c, b))
  BY SoleIsKept, EveryTurnIsRegular DEF Regular
<1>2. PICK o \in Objects : o = cache[b] /\ ~Fresh(o)
  BY HeldIsNotFresh DEF Sole
<1>3. /\ b \in DOMAIN cache' /\ cache'[b] = o
      /\ OpenIn(objs[o].status) \subseteq OpenRow(b)
  BY <1>1, <1>2 DEF CachedAlike, Sole
<1>4. OpenIn(objs'[o].status) \subseteq OpenIn(objs[o].status)
  BY <1>1, <1>2 DEF Turn, OpenIn
<1>5. OpenIn(objs'[cache'[b]].status) \subseteq OpenRow(b)'
  <2>1. CASE RowAlike(b)
    BY <1>1, <1>3, <1>4, <2>1 DEF RowAlike, OpenRow
  <2>2. CASE Writes(c, b)
    <3>1. req[c].id = b /\ req[c].pc = "committing" /\ req[c].op = "cancel"
      BY <2>2 DEF Writes, CommitCancel
    <3>2. OpenIn(objs[o].status) = {}
      BY <1>2, <3>1, SoundMeaning DEF Sole, Sweeping, OpenCopy
    <3> QED BY <1>3, <1>4, <3>2
  <2> QED BY <1>1, <2>1, <2>2
<1>6. req'[c].id = b => req'[c].op \in {"task", "list"} \/ (Sweeps(c)' /\ req'[c].obj = o)
  <2> SUFFICES ASSUME req'[c].id = b
               PROVE  req'[c].op \in {"task", "list"} \/ (Sweeps(c)' /\ req'[c].obj = o)
    OBVIOUS
  <2>1. CASE Over(c)
    BY <1>1, <2>1 DEF Over, NoRequest, Batches
  <2>2. CASE Asks(c)
    BY <1>3, <2>2 DEF Asks, Sole
  <2>3. CASE Obtains(c)
    <3>1. Stage(c)' /\ b # nextId
      BY EveryTurnIsRegular, SoundMeaning DEF Regular, Known, Sound, Typed
    <3> QED BY <2>3, <3>1, SoundMeaning DEF Obtains, Sole, Sweeps, Stage
  <2>4. CASE Proceeds(c)
    BY <1>2, <2>4, SoundMeaning DEF Proceeds, Sole, Sweeps, Stage
  <2> QED BY <1>1, <2>1, <2>2, <2>3, <2>4
<1>7. ASSUME NEW d \in Clients, d # c, req'[d].id = b, req'[c].id = b
      PROVE  Touched(c)' \cap Touched(d)' = {}
  <2>1. req'[d] = req[d] /\ Touched(d)' = Touched(d)
    BY <1>1, <1>7 DEF Turn, Touched
  <2>2. Touched(d) \cap OpenIn(objs[o].status) = {}
    <3>1. CASE Sweeps(d)
      <4>1. req[d].obj = o
        BY <1>2, <1>7, <2>1, <3>1, SoundMeaning DEF Sole, Stage
      <4> QED BY <3>1, <4>1, SoundMeaning DEF Sweeping, OpenCopy
    <3>2. CASE ~Sweeps(d)
      BY <3>2, SoundMeaning DEF Sweeping, Sweeps, Touched
    <3> QED BY <3>1, <3>2
  <2>3. CASE Proceeds(c)
    <3>1. req'[c].obj = o
      BY <1>6, <1>7, <2>3, EveryTurnIsRegular DEF Proceeds, Regular, Stage, Sweeps
    <3>2. \A t \in Touched(c)' : t \in Touched(c) \/ t \in OpenIn(objs[o].status)
      BY <2>3, <3>1 DEF Proceeds, Touched, OpenIn
    <3>3. Touched(c) \cap Touched(d) = {}
      <4>1. CASE req[c].id = b
        BY <1>7, <2>1, <4>1 DEF Sole
      <4>2. CASE req[c].id # b
        <5>1. req[c].pc = "idle"
          BY <1>7, <2>3, <4>2 DEF Proceeds
        <5> QED BY <5>1, SoundMeaning DEF Sweeping, Sweeps, Touched
      <4> QED BY <4>1, <4>2
    <3> QED BY <2>1, <2>2, <3>2, <3>3
  <2>4. CASE ~Proceeds(c)
    <3>1. Touched(c)' = {}
      BY <1>1, <2>4 DEF Over, Asks, Obtains, NoRequest, Touched
    <3> QED BY <3>1
  <2> QED BY <2>3, <2>4
<1>8. \A d \in Clients : d # c => req'[d] = req[d] /\ Touched(d)' = Touched(d)
  BY <1>1 DEF Turn, Touched
<1>9. \A d \in Clients : req'[d].id = b => req'[d].op \in {"task", "list"} \/ (Sweeps(d)' /\ req'[d].obj = cache'[b])
  BY <1>2, <1>3, <1>6, <1>8 DEF Sole, Sweeps
<1>10. \A d, e \in Clients : d # e /\ req'[d].id = b /\ req'[e].id = b => Touched(d)' \cap Touched(e)' = {}
  BY <1>7, <1>8 DEF Sole
<1> QED BY <1>3, <1>5, <1>9, <1>10 DEF Sole


LEMMA SingleInit == ASSUME Init PROVE Unborn /\ Single
BY DEF Init, Unborn, Single, NoRequest

LEMMA SingleStep == ASSUME Sound, Unborn, Single, [Next]_vars PROVE Unborn' /\ Single'
<1>1. CASE Restore
  <2>1. /\ restored' = DOMAIN db /\ DOMAIN cache' = DOMAIN db /\ UNCHANGED <<db, req>>
        /\ \A c \in Clients : req[c] = NoRequest
    BY <1>1, Restoring
  <2>2. ASSUME NEW b \in DOMAIN db PROVE Sole(b)'
    <3>1. objs'[cache'[b]] = [id |-> b, status |-> db[b]] /\ 0 # b
      BY <1>1, <2>2, Restoring, SoundMeaning DEF Batches
    <3>2. OpenIn(objs'[cache'[b]].status) \subseteq OpenRow(b)'
      BY <2>1, <2>2, <3>1 DEF OpenRow
    <3> QED BY <2>1, <2>2, <3>1, <3>2 DEF Sole, NoRequest
  <2> QED BY <2>1, <2>2 DEF Unborn, Single, NoRequest
<1>2. CASE Crash
  <2>1. restored' = {} /\ \A c \in Clients : req'[c] = NoRequest
    BY <1>2, Crashing DEF Stopped
  <2> QED BY <2>1 DEF Unborn, Single, NoRequest
<1>3. ASSUME NEW c \in Clients, Client(c) PROVE Unborn' /\ Single'
  <2>1. Unborn'
    BY <1>3, UnbornTurn
  <2>2. ASSUME NEW b \in restored' \cap DOMAIN db' PROVE Sole(b)'
    <3>1. b \in restored
      BY <1>3, <2>2, EveryTurnIsRegular DEF Regular, Turn
    <3>2. b \in Known /\ b \in Batches /\ b # nextId
      BY <3>1, SoundMeaning DEF Sound, Typed, Known
    <3>3. b \in DOMAIN db
      BY <1>3, <2>2, <3>2, Writing DEF RowAlike, Writes
    <3> QED BY <1>3, <2>2, <3>1, <3>3, SoleTurn DEF Single
  <2> QED BY <2>1, <2>2 DEF Single
<1>4. CASE UNCHANGED vars
  <2>1. UNCHANGED <<db, cache, scheduled, objs, req, restored>>
    BY <1>4 DEF vars, memory, history
  <2> QED BY <2>1 DEF Unborn, Single, Sole, Sweeps, Touched, OpenRow
<1> QED BY <1>1, <1>2, <1>3, <1>4 DEF Next

LEMMA AlwaysSingle == Spec => [](Sound /\ Unborn /\ Single)
<1>1. Init => Sound /\ Unborn /\ Single
  BY SoundInit, SingleInit
<1>2. Sound /\ Unborn /\ Single /\ [Next]_vars => (Sound /\ Unborn /\ Single)'
  BY SoundStep, SingleStep
<1> QED BY <1>1, <1>2, PTL DEF Spec

\* However get_batch, list_batches, cancel_batch and delete_batch take turns, the cached
\* copy of a batch that was there when the service started never shows a task as open
\* that the database has as finished.
THEOREM CacheKeepsUp == Spec => []CacheIsNotBehind
<1>1. Single => CacheIsNotBehind
  BY DEF Single, Sole, CacheIsNotBehind
<1> QED BY <1>1, AlwaysSingle, PTL


-----------------------------------------------------------------------------
(* The scheduler keeps no batch that is cancelled or deleted.               *)

\* No request is cancelled by its caller between its commit and what follows it.
SeesItThrough == \A c \in Clients : req[c].pc = "committed" => ~Abandon(c)

\* A scheduled batch has a task to run, or the request that took the last one returns next.
Due(b) ==
  \/ scheduled[b].tasks \cap OpenRow(b) # {}
  \/ \E c \in Clients : req[c].pc = "committed" /\ req[c].id = b
NoGhosts == up => \A b \in DOMAIN scheduled \cap restored : Due(b)

LEMMA DueTurn ==
  ASSUME Sound, Unborn, NoGhosts, NEW c \in Clients, Client(c), SeesItThrough,
         NEW b \in DOMAIN scheduled' \cap restored'
  PROVE  Due(b)'
<1>1. Turn(c) /\ b \in restored /\ b \in Known /\ b \in Batches /\ b # nextId
  BY EveryTurnIsRegular, SoundMeaning DEF Regular, Turn, Sound, Typed, Known
<1>2. b \in DOMAIN scheduled /\ scheduled'[b] = scheduled[b]
  <2>1. ~Schedules(c, b)
    BY <1>1 DEF Schedules, CreateReturn, Unborn
  <2> QED BY <1>1, <2>1, Scheduling DEF ScheduledAlike, Unschedules
<1>3. Due(b)
  BY <1>1, <1>2 DEF NoGhosts, Turn
<1>4. CASE scheduled[b].tasks \cap OpenRow(b) # {}
  <2>1. b \in DOMAIN db
    BY <1>4 DEF OpenRow
  <2>2. CASE b \in DOMAIN db' /\ RowAlike(b)
    BY <1>2, <1>4, <2>2 DEF RowAlike, OpenRow, Due
  <2>3. CASE Writes(c, b) \/ (CommitDelete(c) /\ b = req[c].id)
    <3>1. req'[c].pc = "committed" /\ req'[c].id = b
      BY <2>3, Commits DEF Writes
    <3> QED BY <3>1 DEF Due
  <2>4. (b \in DOMAIN db' /\ RowAlike(b)) \/ Writes(c, b) \/ (CommitDelete(c) /\ b = req[c].id)
    BY <1>1, <2>1, Writing
  <2> QED BY <2>2, <2>3, <2>4
<1>5. ASSUME NEW d \in Clients, req[d].pc = "committed", req[d].id = b PROVE Due(b)'
  <2>1. CASE d # c
    BY <1>1, <1>5, <2>1 DEF Turn, Due
  <2>2. CASE d = c
    <3>1. Return(c) \/ Abandon(c)
      BY <1>5, <2>2, DeadlockedWaits, SoundMeaning
         DEF Client, Create, CreateReturn, Begin, BeginLoad, BeginTask, List, Load, Remember,
             RememberTask, Updated, Fail, CommitCancel, CommitDelete, ListReturn, Idle
    <3>2. ~Abandon(c)
      BY <1>5, <2>2 DEF SeesItThrough
    <3>3. scheduled' = Without(scheduled, b)
      BY <1>5, <2>2, <3>1, <3>2 DEF Return, Unscheduled
    <3> QED BY <3>3 DEF Without, Restrict
  <2> QED BY <2>1, <2>2
<1> QED BY <1>3, <1>4, <1>5 DEF Due

LEMMA NoGhostsStep ==
  ASSUME Sound, Unborn, NoGhosts, [Next]_vars, [SeesItThrough]_vars
  PROVE  NoGhosts'
<1>1. CASE Restore
  <2> SUFFICES ASSUME NEW b \in DOMAIN scheduled' PROVE Due(b)'
    BY DEF NoGhosts
  <2>1. /\ DOMAIN scheduled' = {a \in DOMAIN db : OpenIn(db[a]) # {}} /\ UNCHANGED db
        /\ scheduled'[b] = [obj |-> cache'[b], tasks |-> OpenIn(db[b])]
    BY <1>1, Restoring
  <2>2. scheduled'[b].tasks = OpenRow(b)' /\ OpenRow(b)' # {}
    BY <2>1 DEF OpenRow
  <2> QED BY <2>2 DEF Due
<1>2. CASE Crash
  BY <1>2 DEF Crash, NoGhosts
<1>3. ASSUME NEW c \in Clients, Client(c) PROVE NoGhosts'
  <2>1. CASE SeesItThrough
    BY <1>3, <2>1, DueTurn DEF NoGhosts
  <2>2. CASE UNCHANGED vars
    BY <2>2 DEF vars, memory, history, NoGhosts, Due, OpenRow
  <2> QED BY <2>1, <2>2
<1>4. CASE UNCHANGED vars
  BY <1>4 DEF vars, memory, history, NoGhosts, Due, OpenRow
<1> QED BY <1>1, <1>2, <1>3, <1>4 DEF Next

\* However transactions fail, and unless a caller gives up between the commit of its
\* cancellation or deletion and its end, no batch that was there when the service started
\* keeps a place in the scheduler: it has work left in the database, or a request is about
\* to unschedule it.
THEOREM NoGhostIsScheduled == Spec /\ [][SeesItThrough]_vars => []NoGhostWork
<1>1. Init => NoGhosts
  BY DEF Init, NoGhosts
<1>2. Sound /\ Unborn /\ Single /\ NoGhosts /\ [Next]_vars /\ [SeesItThrough]_vars => NoGhosts'
  BY NoGhostsStep
<1>3. Sound /\ NoGhosts => NoGhostWork
  <2> SUFFICES ASSUME Sound, NoGhosts, up, NEW b \in DOMAIN scheduled \cap restored, NEW c \in Clients,
                      req[c].pc = "committed", req[c].id = b
               PROVE  At(b, {"cancel", "delete"})
    BY DEF NoGhosts, NoGhostWork, Due
  <2> QED BY SoundMeaning DEF At, Stage, Sweeps
<1> QED BY <1>1, <1>2, <1>3, AlwaysSingle, PTL DEF Spec


-----------------------------------------------------------------------------
(* No unfinished batch is lost.                                             *)

\* No creation is given up between its commit and its scheduling, and no cancellation or
\* deletion fails whose batch is there, but to end a deadlock on a batch that was there
\* when the service started.
SeesItsWorkThrough ==
  \A c \in Clients :
    /\ req[c].pc = "created" => ~Abandon(c)
    /\ Sweeps(c) /\ req[c].id \in DOMAIN db /\ Fail(c) => Deadlocked(c) /\ req[c].id \in restored

\* Task t of b is in the hands of a request, which finishes its row or deletes the batch.
Doomed(b) == \E c \in Clients : req[c].op = "delete" /\ req[c].pc = "committing" /\ req[c].id = b
InHand(b, t) == Doomed(b) \/ \E c \in Clients : req[c].id = b /\ t \in Touched(c)

\* The entities that b has, or comes to have, in the cache.
Copy(o, b) ==
  \/ b \in DOMAIN cache /\ cache[b] = o
  \/ \E c \in Clients : req[c].obj = o /\ req[c].id = b /\ req[c].op # "task"

\* A task is marked, and unfinished in the database, only while it is in hand.
Carried ==
  \A b \in DOMAIN db, o \in Objects : Copy(o, b) =>
    \A t \in OpenRow(b) : objs[o].status[t] = "open" \/ InHand(b, t)

\* A batch with unfinished tasks is scheduled, or about to be, or they are in hand.
Retained(b) ==
  \/ b \in DOMAIN scheduled /\ OpenRow(b) \subseteq scheduled[b].tasks
  \/ \E c \in Clients : req[c].pc = "created" /\ req[c].id = b
  \/ \A t \in OpenRow(b) : InHand(b, t)
AllKept == up => \A b \in DOMAIN db : Retained(b)

\* On a batch with one entity only deletions wait for each other: where one is picked to
\* end a deadlock, another is left.
LEMMA AnotherDeletes ==
  ASSUME Sound, NEW c \in Clients, NEW b \in Batches, req[c].id = b, Sole(b), Deadlocked(c),
         Client(c)
  PROVE  Doomed(b)'
<1>1. \A d \in Clients : d # c => req'[d] = req[d]
  BY EveryTurnIsRegular DEF Regular, Turn
<1>2. PICK d \in Clients : WaitsFor(d, c)
  <2> DEFINE S == Clients \ {c}
  <2>1. S \in SUBSET Clients /\ c \notin S
    OBVIOUS
  <2>2. AwaitedBy(c) \subseteq S
    BY DEF AwaitedBy, WaitsFor
  <2>3. PICK d \in S : ~(AwaitedBy(d) \subseteq S)
    BY <2>1, <2>2 DEF Deadlocked
  <2>4. c \in AwaitedBy(d)
    BY <2>3 DEF AwaitedBy
  <2> QED BY <2>3, <2>4 DEF AwaitedBy
<1>3. d # c /\ req[d].id = req[c].id
  BY <1>2 DEF WaitsFor
<1>4. ~(req[d].pc = "marking" /\ req[d].at \in req[c].dirty)
  <2> SUFFICES ASSUME req[d].pc = "marking", req[d].at \in req[c].dirty PROVE FALSE
    OBVIOUS
  <2>1. req[d].at \in Touched(d) /\ req[d].at \in Touched(c)
    BY SoundMeaning DEF Touched, Sweeping
  <2> QED BY <1>3, <2>1 DEF Sole
<1>5. req[d].pc = "committing" /\ req[d].op = "delete"
  BY <1>2, <1>4 DEF WaitsFor
<1> QED BY <1>1, <1>3, <1>5 DEF Doomed


LEMMA InHandTurn ==
  ASSUME Sound, Single, NEW c \in Clients, Client(c), SeesItsWorkThrough,
         NEW b \in DOMAIN db, b \in DOMAIN db', NEW t \in Tasks, t \in OpenRow(b)', InHand(b, t)
  PROVE  InHand(b, t)'
<1>1. Turn(c) /\ b \in Batches /\ (Over(c) \/ Asks(c) \/ Obtains(c) \/ Proceeds(c))
  BY EveryTurnIsRegular, SoundMeaning DEF Regular
<1>2. \A d \in Clients : d # c => req'[d] = req[d] /\ Touched(d)' = Touched(d)
  BY <1>1 DEF Turn, Touched
<1>3. ASSUME NEW d \in Clients, d # c, req[d].id = b,
             t \in Touched(d) \/ (req[d].op = "delete" /\ req[d].pc = "committing")
      PROVE  InHand(b, t)'
  BY <1>2, <1>3 DEF InHand, Doomed
<1>4. ASSUME req[c].id = b, t \in Touched(c) \/ (req[c].op = "delete" /\ req[c].pc = "committing")
      PROVE  InHand(b, t)'
  <2>1. req[c].pc \in {"marking", "committing"}
    BY <1>4, SoundMeaning DEF Sweeping, Sweeps, Touched
  <2>2. Updated(c) \/ CommitCancel(c) \/ CommitDelete(c) \/ Fail(c)
    BY <2>1 DEF Client, Create, CreateReturn, Begin, BeginLoad, BeginTask, List, Load, Remember,
                RememberTask, Abandon, Return, ListReturn, Idle
  <2>3. CASE Updated(c) \/ CommitCancel(c)
    <3>1. Proceeds(c) /\ t \in Touched(c)
      BY <1>4, <2>3, Updating, Commits DEF Updated, CommitCancel
    <3>2. req'[c].id = b /\ (t \in Touched(c)' \/ t \notin OpenRow(b)')
      BY <1>4, <2>1, <3>1 DEF Proceeds
    <3> QED BY <3>2 DEF InHand
  <2>4. CASE CommitDelete(c)
    BY <1>4, <2>4 DEF CommitDelete, Without, Restrict
  <2>5. CASE Fail(c)
    <3>1. Deadlocked(c) /\ b \in restored
      BY <1>4, <2>1, <2>5 DEF SeesItsWorkThrough, Sweeps
    <3> QED BY <1>1, <1>4, <3>1, AnotherDeletes DEF Single, InHand
  <2> QED BY <2>2, <2>3, <2>4, <2>5
<1> QED BY <1>3, <1>4 DEF InHand, Doomed

\* The copies of b after a turn are those before, and what is read from the database.
LEMMA Copies ==
  ASSUME Sound, NEW c \in Clients, Client(c), NEW b \in Batches, NEW o \in Objects, Copy(o, b)'
  PROVE  \/ Copy(o, b) /\ ~Fresh(o) /\ b \in Known /\ objs[o].id = b
         \/ Obtains(c) /\ o = req'[c].obj /\ b = req'[c].id /\ req'[c].op # "task"
<1>1. Turn(c) /\ Stage(c)' /\ (Over(c) \/ Asks(c) \/ Obtains(c) \/ Proceeds(c))
  BY EveryTurnIsRegular DEF Regular
<1>2. Copy(o, b) => ~Fresh(o) /\ b \in Known /\ objs[o].id = b
  <2>1. ASSUME b \in DOMAIN cache, cache[b] = o PROVE ~Fresh(o) /\ b \in Known /\ objs[o].id = b
    BY <2>1, HeldIsNotFresh DEF Sound, Filed
  <2>2. ASSUME NEW d \in Clients, req[d].obj = o, req[d].id = b
        PROVE  ~Fresh(o) /\ b \in Known /\ objs[o].id = b
    BY <2>2, HeldIsNotFresh, SoundMeaning, NoneAssumption DEF Stage
  <2> QED BY <2>1, <2>2 DEF Copy
<1>3. ASSUME b \in DOMAIN cache', cache'[b] = o PROVE Copy(o, b)
  <2>1. CASE CachedAlike(b)
    BY <1>3, <2>1 DEF CachedAlike, Copy
  <2>2. CASE FilesIts(c, b)
    <3>1. req[c].op # "task"
      BY <2>2, SoundMeaning DEF FilesIts, CreateReturn, Remember, ListReturn, Stage
    <3> QED BY <1>3, <2>2, <3>1 DEF FilesIts, Copy
  <2> QED BY <1>3, <2>1, <2>2, Filing DEF Drops
<1>4. ASSUME NEW d \in Clients, d # c, req'[d].obj = o, req'[d].id = b, req'[d].op # "task"
      PROVE  Copy(o, b)
  BY <1>1, <1>4 DEF Turn, Copy
<1>5. ASSUME req'[c].obj = o, req'[c].id = b, req'[c].op # "task", ~Obtains(c)
      PROVE  Copy(o, b)
  <2>1. Proceeds(c)
    BY <1>1, <1>5, NoneAssumption DEF Over, Asks, NoRequest, Stage
  <2>2. CASE req[c].pc = "idle"
    BY <1>5, <2>1, <2>2 DEF Proceeds, Copy, Sweeps
  <2>3. CASE req[c].pc # "idle"
    BY <1>5, <2>1, <2>3 DEF Proceeds, Copy
  <2> QED BY <2>2, <2>3
<1> QED BY <1>2, <1>3, <1>4, <1>5 DEF Copy

LEMMA CarriedTurn ==
  ASSUME Sound, Single, Carried, NEW c \in Clients, Client(c), SeesItsWorkThrough
  PROVE  Carried'
<1> SUFFICES ASSUME NEW b \in DOMAIN db', NEW o \in Objects, Copy(o, b)', NEW t \in OpenRow(b)'
             PROVE  objs'[o].status[t] = "open" \/ InHand(b, t)'
  BY DEF Carried
<1>1. /\ Turn(c) /\ Rows /\ b \in Batches /\ t \in Tasks
      /\ b \in Known => b \in DOMAIN db /\ OpenRow(b)' \subseteq OpenRow(b)
  <2>1. Sound' /\ Turn(c) /\ Rows
    BY EveryTurnIsRegular, TurnIsSound DEF Regular
  <2>2. b \in Batches
    BY <2>1, SoundMeaning DEF Sound, Typed, Known, Batches
  <2>3. b \in Known => b # nextId
    BY SoundMeaning DEF Known
  <2> QED BY <2>1, <2>2, <2>3 DEF Rows, OpenRow, OpenIn
<1>2. CASE Copy(o, b) /\ ~Fresh(o) /\ b \in Known /\ objs[o].id = b
  <2>1. objs[o].status[t] = "open" \/ InHand(b, t)
    BY <1>1, <1>2 DEF Carried
  <2>2. CASE InHand(b, t)
    BY <1>1, <1>2, <2>2, InHandTurn
  <2>3. CASE objs[o].status[t] = "open" /\ objs'[o].status[t] # "open"
    <3>1. t \in Touched(c)' /\ req'[c].id = b
      BY <1>1, <1>2, <2>3 DEF Turn
    <3> QED BY <3>1 DEF InHand
  <2> QED BY <2>1, <2>2, <2>3
<1>3. CASE Obtains(c) /\ o = req'[c].obj /\ b = req'[c].id /\ req'[c].op # "task"
  <2>1. objs'[o].status = db'[b]
    BY <1>3 DEF Obtains
  <2> QED BY <2>1 DEF OpenRow, OpenIn
<1> QED BY <1>1, <1>2, <1>3, Copies

LEMMA KeptTurn ==
  ASSUME Sound, Unborn, Single, Carried, AllKept, NEW c \in Clients, Client(c), SeesItsWorkThrough
  PROVE  AllKept'
<1> SUFFICES ASSUME NEW b \in DOMAIN db' PROVE Retained(b)'
  BY DEF AllKept
<1>1. /\ Turn(c) /\ Rows /\ b \in Batches
      /\ b \in DOMAIN db => Retained(b) /\ OpenRow(b)' \subseteq OpenRow(b) /\ OpenRow(b)' \subseteq Tasks
  <2>1. Sound' /\ Turn(c) /\ Rows
    BY EveryTurnIsRegular, TurnIsSound DEF Regular
  <2>2. b \in Batches
    BY <2>1, SoundMeaning DEF Sound, Typed, Known, Batches
  <2>3. b \in DOMAIN db => b # nextId
    BY SoundMeaning DEF Known
  <2> QED BY <2>1, <2>2, <2>3 DEF Rows, OpenRow, OpenIn, AllKept, Turn
<1>2. CASE b \notin DOMAIN db
  <2>1. Create(c) /\ b = nextId
    BY <1>1, <1>2, Writing DEF RowAlike, Writes
  <2>2. req'[c].pc = "created" /\ req'[c].id = b
    <3>1. req[c].pc = "idle"
      BY <2>1 DEF Create, Idle
    <3>2. \E o \in Objects : req' = [req EXCEPT ![c] = [NoRequest EXCEPT !.op = "create",
                                          !.pc = "created", !.id = nextId, !.obj = o]]
      BY <2>1 DEF Create, Becomes
    <3> QED BY <2>1, <3>2, SoundMeaning DEF NoRequest
  <2> QED BY <2>2 DEF Retained
<1>3. ASSUME b \in DOMAIN db, \A t \in OpenRow(b) : InHand(b, t) PROVE Retained(b)'
  BY <1>1, <1>3, InHandTurn DEF Retained
<1>4. ASSUME b \in DOMAIN db, b \in DOMAIN scheduled, OpenRow(b) \subseteq scheduled[b].tasks
      PROVE  Retained(b)'
  <2>1. CASE ScheduledAlike(b)
    BY <1>1, <1>4, <2>1 DEF ScheduledAlike, Retained
  <2>2. CASE Unschedules(c, b)
    <3>1. req[c].id = b /\ req[c].pc = "committed" /\ Stage(c) /\ Sweeping(c)
      BY <2>2, SoundMeaning DEF Unschedules, Return
    <3>2. PICK o \in Objects : o = req[c].obj
      BY <3>1, SoundMeaning DEF Stage
    <3>3. Copy(o, b) /\ OpenIn(objs[o].status) = {}
      BY <3>1, <3>2 DEF Copy, Stage, Sweeping, OpenCopy
    <3>4. \A t \in OpenRow(b) : InHand(b, t)
      BY <1>4, <3>3 DEF Carried, OpenRow, OpenIn
    <3> QED BY <1>3, <1>4, <3>4
  <2> QED BY <1>1, <1>4, <2>1, <2>2, Scheduling DEF Schedules
<1>5. ASSUME b \in DOMAIN db, NEW d \in Clients, req[d].pc = "created", req[d].id = b
      PROVE  Retained(b)'
  <2>1. CASE d # c
    BY <1>1, <1>5, <2>1 DEF Turn, Retained
  <2>2. CASE d = c
    <3>1. CreateReturn(c)
      BY <1>5, <2>2, DeadlockedWaits, SoundMeaning
         DEF Client, Create, Begin, BeginLoad, BeginTask, List, Load, Remember, RememberTask, Updated,
             Fail, SeesItsWorkThrough, CommitCancel, CommitDelete, Return, ListReturn, Idle
    <3>2. ~Unschedules(c, b) /\ b \notin DOMAIN scheduled /\ b \in DOMAIN scheduled'
      BY <1>1, <1>5, <2>2, <3>1, Scheduling DEF Unborn, Unschedules
    <3>3. scheduled'[b] = [obj |-> req[c].obj, tasks |-> Tasks]
      BY <1>1, <3>2, Scheduling DEF ScheduledAlike, Schedules
    <3> QED BY <1>1, <1>5, <3>2, <3>3 DEF Retained
  <2> QED BY <2>1, <2>2
<1> QED BY <1>1, <1>2, <1>3, <1>4, <1>5 DEF Retained


LEMMA KeptStep ==
  ASSUME Sound, Unborn, Single, Carried, AllKept, [Next]_vars, [SeesItsWorkThrough]_vars
  PROVE  Carried' /\ AllKept'
<1>1. CASE Restore
  <2>1. /\ DOMAIN cache' = DOMAIN db /\ UNCHANGED <<db, req>>
        /\ DOMAIN scheduled' = {a \in DOMAIN db : OpenIn(db[a]) # {}}
        /\ \A c \in Clients : req'[c].obj = None
    BY <1>1, Restoring DEF NoRequest
  <2>2. ASSUME NEW b \in DOMAIN db', NEW o \in Objects, Copy(o, b)', NEW t \in OpenRow(b)'
        PROVE  objs'[o].status[t] = "open"
    <3>1. cache'[b] = o
      BY <2>1, <2>2, NoneAssumption DEF Copy
    <3>2. objs'[o] = [id |-> b, status |-> db[b]]
      BY <1>1, <2>1, <2>2, <3>1, Restoring
    <3> QED BY <2>1, <2>2, <3>2 DEF OpenRow, OpenIn
  <2>3. ASSUME NEW b \in DOMAIN db' PROVE Retained(b)'
    <3>1. CASE OpenIn(db[b]) = {}
      BY <2>1, <3>1 DEF Retained, OpenRow
    <3>2. CASE OpenIn(db[b]) # {}
      <4>1. b \in DOMAIN scheduled' /\ scheduled'[b] = [obj |-> cache'[b], tasks |-> OpenIn(db[b])]
        BY <1>1, <2>1, <2>3, <3>2, Restoring
      <4> QED BY <2>1, <4>1 DEF Retained, OpenRow
    <3> QED BY <3>1, <3>2
  <2> QED BY <2>2, <2>3 DEF Carried, AllKept
<1>2. CASE Crash
  <2>1. ~up' /\ DOMAIN cache' = {} /\ \A c \in Clients : req'[c].obj = None
    BY <1>2, Crashing DEF Stopped, NoRequest
  <2> QED BY <2>1, NoneAssumption DEF Carried, AllKept, Copy
<1>3. CASE UNCHANGED vars
  <2>1. UNCHANGED <<db, up, cache, scheduled, objs, req>>
    BY <1>3 DEF vars, memory
  <2> QED BY <2>1 DEF Carried, AllKept, Retained, Copy, InHand, Doomed, Touched, OpenRow
<1>4. ASSUME NEW c \in Clients, Client(c), SeesItsWorkThrough PROVE Carried' /\ AllKept'
  BY <1>4, CarriedTurn, KeptTurn
<1> QED BY <1>1, <1>2, <1>3, <1>4 DEF Next

LEMMA AlwaysKept ==
  Spec /\ [][SeesItsWorkThrough]_vars => [](Sound /\ Unborn /\ Single /\ Carried /\ AllKept)
<1>1. Init => Carried /\ AllKept
  <2> SUFFICES ASSUME Init PROVE Carried /\ AllKept
    OBVIOUS
  <2>1. ~up /\ DOMAIN cache = {} /\ \A c \in Clients : req[c].obj = None
    BY DEF Init, NoRequest
  <2> QED BY <2>1, NoneAssumption DEF Carried, AllKept, Copy
<1>2. Sound /\ Unborn /\ Single /\ Carried /\ AllKept /\ [Next]_vars /\ [SeesItsWorkThrough]_vars
        => Carried' /\ AllKept'
  BY KeptStep
<1> QED BY <1>1, <1>2, AlwaysSingle, PTL DEF Spec

\* While requests see their work through, no persisted work is lost: through every
\* interleaving of creations, cancellations, deletions and readings and every crash, a
\* batch with unfinished tasks is scheduled with them or in the hands of a request.
THEOREM WorkIsKept == Spec /\ [][SeesItsWorkThrough]_vars => []NoBatchIsLost
<1>1. Sound /\ AllKept => NoBatchIsLost
  <2> SUFFICES ASSUME Sound, AllKept, up, NEW b \in DOMAIN db, OpenRow(b) # {},
                      ~(b \in DOMAIN scheduled /\ OpenRow(b) \subseteq scheduled[b].tasks)
               PROVE  At(b, {"create", "cancel", "delete"})
    BY DEF NoBatchIsLost
  <2>1. CASE \E c \in Clients : req[c].pc = "created" /\ req[c].id = b
    BY <2>1, SoundMeaning DEF Stage, At
  <2>2. ASSUME NEW t, InHand(b, t) PROVE At(b, {"create", "cancel", "delete"})
    <3>1. CASE Doomed(b)
      BY <3>1 DEF Doomed, At
    <3>2. ASSUME NEW c \in Clients, req[c].id = b, t \in Touched(c) PROVE At(b, {"cancel", "delete", "create"})
      <4>1. Sweeps(c)
        BY <3>2, SoundMeaning DEF Touched, Sweeping, Sweeps
      <4> QED BY <3>2, <4>1, SoundMeaning DEF Stage, At
    <3> QED BY <2>2, <3>1, <3>2 DEF InHand, At
  <2>3. Retained(b)
    BY DEF AllKept
  <2> QED BY <2>1, <2>2, <2>3 DEF Retained
<1> QED BY <1>1, AlwaysKept, PTL


-----------------------------------------------------------------------------
(* What the clients have been told.                                         *)

ToldTyped == told \in [Batches -> SUBSET Claims]

\* What tells the client of c the claim of the batch b.
Tells(c, b, claim) ==
  /\ b = req[c].id
  /\ \/ claim = "cancelled" /\ Return(c) /\ req[c].op = "cancel" /\ Alone(c)
     \/ claim = "gone" /\ Return(c) /\ req[c].op = "delete" /\ Alone(c)
     \/ claim = "missing" /\ b \in Known /\ b \notin DOMAIN db /\ UNCHANGED db

LEMMA Learning ==
  ASSUME Sound, ToldTyped, NEW c \in Clients, NEW status, Learns(c, status)
  PROVE  /\ ToldTyped' /\ \A b \in Batches : b # req[c].id => told'[b] = told[b]
         /\ \A b \in Batches : told'[b] # told[b] => b = req[c].id
         /\ req[c].id \in Batches => \A claim \in told'[req[c].id] :
              \/ claim \in told[req[c].id]
              \/ claim = "missing" /\ status = "NOT_FOUND" /\ req[c].id < nextId
              \/ claim = "cancelled" /\ status = "OK" /\ req[c].op = "cancel" /\ Alone(c)
              \/ claim = "gone" /\ status = "OK" /\ req[c].op = "delete" /\ Alone(c)
<1> DEFINE k == req[c].id
           claims == IF status = "NOT_FOUND" /\ k < nextId THEN {"missing"}
                     ELSE IF status = "OK" /\ req[c].op = "cancel" /\ Alone(c) THEN {"cancelled"}
                     ELSE IF status = "OK" /\ req[c].op = "delete" /\ Alone(c) THEN {"gone"}
                     ELSE {}
<1>1. told' = [told EXCEPT ![k] = @ \cup claims]
  BY DEF Learns
<1>2. /\ claims \subseteq Claims
      /\ \A claim \in claims :
           \/ claim = "missing" /\ status = "NOT_FOUND" /\ k < nextId
           \/ claim = "cancelled" /\ status = "OK" /\ req[c].op = "cancel" /\ Alone(c)
           \/ claim = "gone" /\ status = "OK" /\ req[c].op = "delete" /\ Alone(c)
  BY DEF Claims
<1> HIDE DEF claims
<1>3. ToldTyped'
  BY <1>1, <1>2 DEF ToldTyped
<1>4. \A b \in Batches : b # k => told'[b] = told[b]
  BY <1>1 DEF ToldTyped
<1>5. k \in Batches => told'[k] = told[k] \cup claims
  BY <1>1 DEF ToldTyped
<1> QED BY <1>2, <1>3, <1>4, <1>5

LEMMA Answering ==
  ASSUME Sound, ToldTyped, NEW c \in Clients, Answers(c)
  PROVE  /\ Client(c) /\ ToldTyped'
         /\ \A b \in Batches : \A claim \in told'[b] : claim \in told[b] \/ Tells(c, b, claim)
<1>1. ASSUME NEW x \in {"LookupError", "Exception"}
      PROVE  StatusOf(x) # "OK" /\ (StatusOf(x) = "NOT_FOUND" => x = "LookupError")
  BY <1>1 DEF StatusOf
<1>2. ASSUME NEW b \in Batches, b = req[c].id, b \notin DOMAIN db, b < nextId PROVE b \in Known
  BY <1>2, SoundMeaning DEF Known, Batches
<1>3. CASE (CreateReturn(c) \/ RememberTask(c) \/ ListReturn(c) \/ Return(c)) /\ Learns(c, "OK")
  <2>1. req[c].op \in {"cancel", "delete"} => Return(c)
    BY <1>3, SoundMeaning DEF CreateReturn, RememberTask, ListReturn, Stage
  <2> QED BY <1>3, <2>1, Learning DEF Client, Tells
<1>4. CASE Missing(c)
  <2>1. Load(c) /\ req'[c].pc = "idle" /\ Learns(c, StatusOf("LookupError")) /\ UNCHANGED db
    BY <1>4 DEF Missing, Load
  <2>2. req[c].id \notin DOMAIN db
    <3>1. ASSUME NEW o \in Objects, Becomes(c, [req[c] EXCEPT !.pc = "loaded", !.obj = o]) PROVE FALSE
      <4>1. PICK r \in Requests : r = req[c]
        BY SoundMeaning
      <4>2. req'[c] = [r EXCEPT !.pc = "loaded", !.obj = o]
        BY <3>1, <4>1, SoundMeaning DEF Becomes
      <4> QED BY <2>1, <4>1, <4>2 DEF Requests
    <3> QED BY <2>1, <3>1 DEF Load
  <2> QED BY <1>1, <1>2, <2>1, <2>2, Learning DEF Client, Tells
<1>5. CASE Raises(c)
  <2>1. PICK x \in {"LookupError", "Exception"} :
          Learns(c, StatusOf(x)) /\ (x = "LookupError" => req[c].id \notin DOMAIN db)
    BY <1>5 DEF Raises
  <2>2. Fail(c) /\ UNCHANGED db
    BY <1>5 DEF Raises, Fail
  <2> QED BY <1>1, <1>2, <2>1, <2>2, Learning DEF Client, Tells
<1> QED BY <1>3, <1>4, <1>5 DEF Answers

LEMMA Telling ==
  ASSUME Sound, ToldTyped, GrpcNext
  PROVE  /\ ToldTyped'
         /\ \A b \in Batches : \A claim \in told'[b] :
              claim \in told[b] \/ \E c \in Clients : Client(c) /\ Tells(c, b, claim)
<1>1. CASE UNCHANGED told
  BY <1>1 DEF ToldTyped
<1>2. ASSUME NEW c \in Clients, Answers(c)
      PROVE  /\ ToldTyped'
             /\ \A b \in Batches : \A claim \in told'[b] :
                  claim \in told[b] \/ \E d \in Clients : Client(d) /\ Tells(d, b, claim)
  BY <1>2, Answering
<1> QED BY <1>1, <1>2 DEF GrpcNext, Silent


\* Of a batch that has an id, no row comes back and no task is opened again.
LEMMA RowsFade ==
  ASSUME Sound, [Next]_vars, NEW b \in Known
  PROVE  /\ b \in Known' /\ OpenRow(b)' \subseteq OpenRow(b)
         /\ b \notin DOMAIN db => b \notin DOMAIN db'
<1>1. CASE UNCHANGED <<db, nextId>>
  BY <1>1 DEF OpenRow, Known
<1>2. ASSUME NEW c \in Clients, Client(c)
      PROVE  /\ b \in Known' /\ OpenRow(b)' \subseteq OpenRow(b)
             /\ b \notin DOMAIN db => b \notin DOMAIN db'
  <2>1. Turn(c) /\ Rows
    BY <1>2, EveryTurnIsRegular DEF Regular
  <2>2. b \in Known' /\ b # nextId
    BY <2>1, SoundMeaning DEF Turn, Known
  <2> QED BY <2>1, <2>2 DEF Rows, OpenRow
<1> QED BY <1>1, <1>2 DEF Next, Restore, Crash, vars

DeletedIsGone ==
  \A b \in Batches : /\ told[b] # {} => b \in Known
                     /\ told[b] \cap {"gone", "missing"} # {} => b \notin DOMAIN db
CancelledIsWritten == \A b \in Batches : "cancelled" \in told[b] => OpenRow(b) = {}

LEMMA GoneStep ==
  ASSUME Sound, ToldTyped, DeletedIsGone, GrpcNext
  PROVE  DeletedIsGone'
<1> SUFFICES ASSUME NEW b \in Batches, NEW claim \in told'[b]
             PROVE  b \in Known' /\ (claim \in {"gone", "missing"} => b \notin DOMAIN db')
  BY DEF DeletedIsGone
<1>1. [Next]_vars
  BY GrpcStep
<1>2. CASE claim \in told[b]
  BY <1>1, <1>2, RowsFade DEF DeletedIsGone
<1>3. ASSUME NEW c \in Clients, Client(c), Tells(c, b, claim)
      PROVE  b \in Known' /\ (claim \in {"gone", "missing"} => b \notin DOMAIN db')
  <2>1. b \in Known
    BY <1>3, SoundMeaning, NoneAssumption DEF Tells, Return, Stage
  <2>2. claim \in {"gone", "missing"} => b \notin DOMAIN db
    BY <1>3, SoundMeaning DEF Tells, Return, Stage
  <2> QED BY <1>1, <2>1, <2>2, RowsFade
<1> QED BY <1>2, <1>3, Telling

LEMMA WrittenStep ==
  ASSUME Sound, Carried, ToldTyped, DeletedIsGone, CancelledIsWritten, GrpcNext
  PROVE  CancelledIsWritten'
<1> SUFFICES ASSUME NEW b \in Batches, "cancelled" \in told'[b]
             PROVE  OpenRow(b)' = {}
  BY DEF CancelledIsWritten
<1>1. [Next]_vars
  BY GrpcStep
<1>2. CASE "cancelled" \in told[b]
  <2>1. b \in Known /\ OpenRow(b) = {}
    BY <1>2 DEF DeletedIsGone, CancelledIsWritten
  <2> QED BY <1>1, <2>1, RowsFade
<1>3. ASSUME NEW c \in Clients, Client(c), Tells(c, b, "cancelled") PROVE OpenRow(b)' = {}
  <2>1. /\ req[c].id = b /\ req[c].pc = "committed" /\ req[c].op = "cancel" /\ Alone(c)
        /\ Stage(c) /\ Sweeping(c)
    BY <1>3, SoundMeaning DEF Tells, Return
  <2>2. PICK o \in Objects : o = req[c].obj
    BY <2>1, SoundMeaning DEF Stage
  <2>3. b \in Known /\ Copy(o, b) /\ OpenIn(objs[o].status) = {} /\ Touched(c) = {}
    BY <2>1, <2>2, NoneAssumption DEF Copy, Stage, Sweeping, OpenCopy, Touched
  <2>4. \A t \in Tasks : ~InHand(b, t)
    BY <2>1, <2>3 DEF InHand, Doomed, Alone
  <2>5. OpenRow(b) = {}
    <3>1. ASSUME NEW t \in OpenRow(b) PROVE FALSE
      <4>1. b \in DOMAIN db /\ t \in Tasks
        BY <3>1 DEF OpenRow, OpenIn
      <4> QED BY <2>3, <2>4, <3>1, <4>1 DEF Carried, OpenIn
    <3> QED BY <3>1
  <2> QED BY <1>1, <2>3, <2>5, RowsFade
<1> QED BY <1>2, <1>3, Telling

LEMMA AlwaysGone == GrpcSpec => [](Sound /\ Unborn /\ Single /\ ToldTyped /\ DeletedIsGone)
<1>1. GrpcInit => ToldTyped /\ DeletedIsGone
  BY DEF GrpcInit, ToldTyped, DeletedIsGone, Claims
<1>2. Sound /\ ToldTyped /\ DeletedIsGone /\ [GrpcNext]_<<vars, told>> => ToldTyped' /\ DeletedIsGone'
  <2>1. CASE UNCHANGED <<vars, told>>
    BY <2>1 DEF vars, memory, history, ToldTyped, DeletedIsGone, Known
  <2> QED BY <2>1, GoneStep, Telling
<1> QED BY <1>1, <1>2, AlwaysSingle, GrpcImplementsService, PTL DEF GrpcSpec

\* Whatever fails and whoever gives up: a batch that a client has been told is deleted, or
\* is not found, has no row from then on.
THEOREM DeletionIsFinal ==
  GrpcSpec => [](\A b \in Batches : told[b] \cap {"gone", "missing"} # {} => b \notin DOMAIN db)
<1>1. DeletedIsGone => \A b \in Batches : told[b] \cap {"gone", "missing"} # {} => b \notin DOMAIN db
  BY DEF DeletedIsGone
<1> QED BY <1>1, AlwaysGone, PTL

LEMMA AlwaysWritten ==
  GrpcSpec /\ [][SeesItsWorkThrough]_vars =>
    [](Sound /\ Unborn /\ Single /\ Carried /\ ToldTyped /\ DeletedIsGone /\ CancelledIsWritten)
<1>1. GrpcInit => CancelledIsWritten
  BY DEF GrpcInit, CancelledIsWritten
<1>2. Sound /\ Carried /\ ToldTyped /\ DeletedIsGone /\ CancelledIsWritten /\ [GrpcNext]_<<vars, told>>
        => CancelledIsWritten'
  <2>1. CASE UNCHANGED <<vars, told>>
    BY <2>1 DEF vars, CancelledIsWritten, OpenRow
  <2> QED BY <2>1, WrittenStep
<1> QED BY <1>1, <1>2, AlwaysGone, AlwaysKept, GrpcImplementsService, PTL DEF GrpcSpec

\* While requests see their work through, what CancelBatch and DeleteBatch have reported,
\* and every NOT_FOUND, holds in the database from then on.
THEOREM AnswersLast == GrpcSpec /\ [][SeesItsWorkThrough]_vars => []AnswersAreDurable
<1>1. DeletedIsGone /\ CancelledIsWritten => AnswersAreDurable
  BY DEF DeletedIsGone, CancelledIsWritten, AnswersAreDurable
<1> QED BY <1>1, AlwaysWritten, PTL


-----------------------------------------------------------------------------
(* What the service serves and schedules agrees with what it has answered.  *)

LEMMA Indexing ==
  ASSUME Sound, NEW c \in Clients, Client(c), NEW b \in Batches
  PROVE  \/ index'[b] = index[b]
         \/ /\ req[c].id = b /\ req[c].obj # None
            /\ \A t \in Tasks : \/ index'[b][t] \in {index[b][t], None, req[c].obj}
                                \/ b \in DOMAIN cache /\ index'[b][t] = cache[b]
<1>1. UNCHANGED index \/ CreateReturn(c) \/ Remember(c) \/ RememberTask(c) \/ Return(c) \/ ListReturn(c)
  BY DEF Client, Create, Begin, BeginLoad, BeginTask, List, Load, Updated, Fail, Abandon,
         CommitCancel, CommitDelete, memory
<1>2. CASE UNCHANGED index
  BY <1>2
<1>3. CASE CreateReturn(c) \/ Remember(c) \/ RememberTask(c) \/ Return(c) \/ ListReturn(c)
  <2> DEFINE k == req[c].id
             o == req[c].obj
  <2>1. o # None /\ k \in Batches
    BY <1>3, SoundMeaning DEF CreateReturn, Remember, RememberTask, Return, ListReturn, Stage
  <2>2. index \in [Batches -> [Tasks -> Objects \cup {None}]]
    BY DEF Sound, Typed
  <2>3. \/ index' = [index EXCEPT ![k] = Everywhere(o)]
        \/ index' = [index EXCEPT ![k] = Nowhere]
        \/ index' = [index EXCEPT ![k][req[c].at] = o]
        \/ k \in DOMAIN cache /\ index' = [index EXCEPT ![k] = Everywhere(cache[k])]
    <3>1. CreateReturn(c) \/ Remember(c) => index' = [index EXCEPT ![k] = Everywhere(o)]
      BY DEF CreateReturn, Remember, Remembers
    <3>2. RememberTask(c) => index' = [index EXCEPT ![k][req[c].at] = o]
      BY DEF RememberTask
    <3>3. Return(c) => \/ index' = [index EXCEPT ![k] = Everywhere(o)]
                       \/ index' = [index EXCEPT ![k] = Nowhere]
      BY DEF Return, RemembersAfter, Forgets, Remembers
    <3>4. ListReturn(c) =>
            \/ index' = [index EXCEPT ![k] = Everywhere(o)]
            \/ k \in DOMAIN cache /\ index' = [index EXCEPT ![k] = Everywhere(cache[k])]
      BY DEF ListReturn, Remembers, Kept
    <3> QED BY <1>3, <3>1, <3>2, <3>3, <3>4
  <2>4. CASE b # k
    BY <2>2, <2>3, <2>4
  <2>5. CASE b = k
    <3>1. \/ index'[k] = Everywhere(o)
          \/ index'[k] = Nowhere
          \/ \A t \in Tasks : index'[k][t] \in {index[k][t], o}
          \/ k \in DOMAIN cache /\ index'[k] = Everywhere(cache[k])
      BY <2>1, <2>2, <2>3
    <3> HIDE DEF k, o
    <3>2. \A t \in Tasks : \/ index'[k][t] \in {index[k][t], None, o}
                           \/ k \in DOMAIN cache /\ index'[k][t] = cache[k]
      BY <3>1 DEF Everywhere, Nowhere
    <3> QED BY <2>1, <2>5, <3>2 DEF k, o
  <2> QED BY <2>4, <2>5
<1> QED BY <1>1, <1>2, <1>3


\* The entities that b, or a task of it, has or comes to have in memory.
Held(o, b) ==
  \/ b \in DOMAIN cache /\ cache[b] = o
  \/ \E t \in Tasks : index[b][t] = o
  \/ \E c \in Clients : req[c].obj = o /\ req[c].id = b

\* Nothing of a batch is left to run ...
Quiet(b) ==
  /\ b \notin DOMAIN scheduled
  /\ \A c \in Clients : req[c].pc = "created" => req[c].id # b
  /\ \A o \in Objects : Held(o, b) => OpenIn(objs[o].status) = {}
\* ... or nothing at all, and nobody has anything to file.
Empty(b) ==
  /\ b \notin DOMAIN scheduled /\ b \notin DOMAIN cache /\ index[b] = Nowhere
  /\ \A c \in Clients : req[c].id = b => req[c].pc = "loading"
Served ==
  \A b \in Batches : /\ "cancelled" \in told[b] => Quiet(b)
                     /\ "gone" \in told[b] => Empty(b)

\* What b has after a turn it had before, or c has read from the database.
LEMMA Holding ==
  ASSUME Sound, NEW c \in Clients, Client(c), NEW b \in Batches, NEW o \in Objects, Held(o, b)'
  PROVE  \/ Held(o, b) /\ ~Fresh(o)
         \/ Obtains(c) /\ o = req'[c].obj /\ b = req'[c].id
<1>1. Turn(c) /\ Stage(c)' /\ (Over(c) \/ Asks(c) \/ Obtains(c) \/ Proceeds(c))
  BY EveryTurnIsRegular DEF Regular
<1>2. Held(o, b) => ~Fresh(o)
  BY HeldIsNotFresh DEF Held
<1>3. ASSUME b \in DOMAIN cache', cache'[b] = o PROVE Held(o, b)
  BY <1>3, Filing DEF CachedAlike, FilesIts, Drops, Held
<1>4. ASSUME NEW t \in Tasks, index'[b][t] = o PROVE Held(o, b)
  <2>1. CASE index'[b] = index[b]
    BY <1>4, <2>1 DEF Held
  <2>2. CASE index'[b] # index[b]
    <3>1. /\ req[c].id = b
          /\ \/ index'[b][t] \in {index[b][t], None, req[c].obj}
             \/ b \in DOMAIN cache /\ index'[b][t] = cache[b]
      BY <2>2, Indexing
    <3> QED BY <1>4, <3>1, NoneAssumption DEF Held
  <2> QED BY <2>1, <2>2
<1>5. ASSUME NEW d \in Clients, d # c, req'[d].obj = o, req'[d].id = b PROVE Held(o, b)
  BY <1>1, <1>5 DEF Turn, Held
<1>6. ASSUME req'[c].obj = o, req'[c].id = b, ~Obtains(c) PROVE Held(o, b)
  <2>1. Proceeds(c)
    BY <1>1, <1>6, NoneAssumption DEF Over, Asks, NoRequest, Stage
  <2>2. CASE req[c].pc = "idle"
    BY <1>6, <2>1, <2>2 DEF Proceeds, Held, Sweeps
  <2>3. CASE req[c].pc # "idle"
    BY <1>6, <2>1, <2>3 DEF Proceeds, Held
  <2> QED BY <2>2, <2>3
<1> QED BY <1>2, <1>3, <1>4, <1>5, <1>6 DEF Held

LEMMA QuietTurn ==
  ASSUME Sound, NEW c \in Clients, Client(c), NEW b \in Known, OpenRow(b) = {}, Quiet(b)
  PROVE  Quiet(b)'
<1>1. /\ Turn(c) /\ b \in Batches /\ b # nextId /\ OpenRow(b)' = {}
      /\ Over(c) \/ Asks(c) \/ Obtains(c) \/ Proceeds(c)
  BY EveryTurnIsRegular, RowsFade, SoundMeaning DEF Regular, Known, Next
<1>2. b \notin DOMAIN scheduled'
  BY <1>1, Scheduling DEF Quiet, ScheduledAlike, Schedules, Unschedules, CreateReturn
<1>3. ASSUME NEW d \in Clients, req'[d].pc = "created" PROVE req'[d].id # b
  <2>1. CASE d # c
    BY <1>1, <1>3, <2>1 DEF Turn, Quiet
  <2>2. CASE d = c
    BY <1>1, <1>3, <2>2 DEF Over, Asks, Obtains, Proceeds, Sweeps, NoRequest
  <2> QED BY <2>1, <2>2
<1>4. ASSUME NEW o \in Objects, Held(o, b)' PROVE OpenIn(objs'[o].status) = {}
  <2>1. CASE Held(o, b) /\ ~Fresh(o)
    <3>1. OpenIn(objs[o].status) = {}
      BY <2>1 DEF Quiet
    <3> QED BY <1>1, <2>1, <3>1 DEF Turn, OpenIn
  <2>2. CASE Obtains(c) /\ o = req'[c].obj /\ b = req'[c].id
    BY <1>1, <2>2 DEF Obtains, OpenRow
  <2> QED BY <1>1, <1>4, <2>1, <2>2, Holding
<1> QED BY <1>2, <1>3, <1>4 DEF Quiet

LEMMA EmptyTurn ==
  ASSUME Sound, NEW c \in Clients, Client(c), NEW b \in Known, b \notin DOMAIN db, Empty(b)
  PROVE  Empty(b)'
<1>1. /\ Turn(c) /\ b \in Batches /\ b \notin DOMAIN db'
      /\ Over(c) \/ Asks(c) \/ Obtains(c) \/ Proceeds(c)
  BY EveryTurnIsRegular, RowsFade, SoundMeaning DEF Regular, Next
<1>2. req[c].id = b => req[c].obj = None /\ req[c].pc = "loading"
  BY SoundMeaning DEF Empty, Stage
<1>3. b \notin DOMAIN scheduled'
  BY <1>1, <1>2, Scheduling DEF Empty, ScheduledAlike, Schedules, Unschedules, CreateReturn
<1>4. b \notin DOMAIN cache'
  BY <1>1, <1>2, Filing DEF Empty, CachedAlike, FilesIts, Drops
<1>5. index'[b] = Nowhere
  BY <1>1, <1>2, Indexing DEF Empty
<1>6. ASSUME NEW d \in Clients, req'[d].id = b PROVE req'[d].pc = "loading"
  <2>1. CASE d # c
    BY <1>1, <1>6, <2>1 DEF Turn, Empty
  <2>2. CASE d = c
    BY <1>1, <1>2, <1>6, <2>2 DEF Over, Asks, Obtains, Proceeds, Sweeps, NoRequest, Empty, Batches
  <2> QED BY <2>1, <2>2
<1> QED BY <1>3, <1>4, <1>5, <1>6 DEF Empty


\* When cancel_batch or delete_batch returns, and nobody else is at work on the batch.
LEMMA ReturningServes ==
  ASSUME Sound, NEW c \in Clients, Return(c), Alone(c), NEW b \in Batches, req[c].id = b
  PROVE  /\ req[c].op = "cancel" => Quiet(b)'
         /\ req[c].op = "delete" => Empty(b)'
<1>1. /\ req[c].pc = "committed" /\ UNCHANGED objs /\ req'[c] = NoRequest
      /\ \A d \in Clients : d # c => req'[d] = req[d]
      /\ Stage(c) /\ Sweeping(c) /\ req[c].obj # None
  BY Returns, SoundMeaning DEF Return, Stage, Over, Regular, Turn
<1>2. b \notin DOMAIN scheduled'
  BY DEF Return, Unscheduled, Without, Restrict
<1>3. \A d \in Clients : req'[d].id # b
  BY <1>1 DEF Alone, NoRequest, Batches
<1>4. index \in [Batches -> [Tasks -> Objects \cup {None}]]
  BY DEF Sound, Typed
<1>5. PICK k : k = req[c].obj
  OBVIOUS
<1>6. ASSUME req[c].op = "cancel" PROVE Quiet(b)'
  <2>1. cache' = Put(cache, b, k) /\ index' = [index EXCEPT ![b] = Everywhere(k)]
    BY <1>5, <1>6 DEF Return, RemembersAfter, Remembers
  <2>2. cache'[b] = k /\ \A t \in Tasks : index'[b][t] = k
    <3>1. index'[b] = Everywhere(k)
      BY <1>4, <2>1
    <3> QED BY <2>1, <3>1 DEF Put, Everywhere
  <2>3. OpenIn(objs'[k].status) = {}
    BY <1>1, <1>5 DEF Sweeping, OpenCopy
  <2>4. \A o \in Objects : Held(o, b)' => o = k
    BY <1>3, <2>2 DEF Held
  <2> QED BY <1>2, <1>3, <2>3, <2>4 DEF Quiet
<1>7. ASSUME req[c].op = "delete" PROVE Empty(b)'
  <2>1. cache' = Without(cache, b) /\ index' = [index EXCEPT ![b] = Nowhere]
    BY <1>7 DEF Return, RemembersAfter, Forgets
  <2>2. b \notin DOMAIN cache' /\ index'[b] = Nowhere
    BY <1>4, <2>1 DEF Without, Restrict
  <2> QED BY <1>2, <1>3, <2>2 DEF Empty
<1> QED BY <1>6, <1>7

LEMMA ServedStep ==
  ASSUME Sound, ToldTyped, DeletedIsGone, CancelledIsWritten, Served, GrpcNext
  PROVE  Served'
<1> SUFFICES ASSUME NEW b \in Batches
             PROVE  /\ "cancelled" \in told'[b] => Quiet(b)'
                    /\ "gone" \in told'[b] => Empty(b)'
  BY DEF Served
<1>a. /\ "cancelled" \in told[b] => Quiet(b) /\ OpenRow(b) = {} /\ b \in Known
      /\ "gone" \in told[b] => Empty(b) /\ b \notin DOMAIN db /\ b \in Known
  BY DEF Served, DeletedIsGone, CancelledIsWritten
<1>1. CASE Restore /\ UNCHANGED told
  <2>1. /\ DOMAIN cache' = DOMAIN db /\ UNCHANGED req /\ \A c \in Clients : req[c] = NoRequest
        /\ DOMAIN scheduled' = {a \in DOMAIN db : OpenIn(db[a]) # {}}
        /\ \A t \in Tasks : index'[b][t] = IF b \in DOMAIN db THEN cache'[b] ELSE None
        /\ b \notin DOMAIN db => index'[b] = Nowhere
    BY <1>1, Restoring
  <2>2. ASSUME "cancelled" \in told[b] PROVE Quiet(b)'
    <3>1. ASSUME NEW o \in Objects, Held(o, b)' PROVE OpenIn(objs'[o].status) = {}
      <4>1. b \in DOMAIN db /\ cache'[b] = o
        BY <2>1, <3>1, NoneAssumption DEF Held, NoRequest
      <4>2. objs'[o] = [id |-> b, status |-> db[b]]
        BY <1>1, <4>1, Restoring
      <4> QED BY <1>a, <2>2, <4>1, <4>2 DEF OpenRow
    <3>2. b \notin DOMAIN scheduled'
      BY <1>a, <2>1, <2>2 DEF OpenRow
    <3> QED BY <2>1, <3>1, <3>2 DEF Quiet, NoRequest
  <2>3. ASSUME "gone" \in told[b] PROVE Empty(b)'
    BY <1>a, <2>1, <2>3 DEF Empty, NoRequest, Batches
  <2> QED BY <1>1, <2>2, <2>3
<1>2. CASE Crash /\ UNCHANGED told
  <2>1. Stopped' /\ \A c \in Clients : req'[c] = NoRequest
    BY <1>2, Crashing
  <2>2. Quiet(b)'
    <3>1. \A o \in Objects : ~Held(o, b)'
      BY <2>1, NoneAssumption DEF Stopped, Held, NoRequest, Nowhere
    <3> QED BY <2>1, <3>1 DEF Quiet, NoRequest, Stopped
  <2>3. Empty(b)'
    BY <2>1 DEF Empty, NoRequest, Stopped, Batches
  <2> QED BY <2>2, <2>3
<1>3. ASSUME NEW c \in Clients, Client(c),
             \A claim \in told'[b] : claim \in told[b] \/ \E d \in Clients : Client(d) /\ Tells(d, b, claim)
      PROVE  /\ "cancelled" \in told'[b] => Quiet(b)'
             /\ "gone" \in told'[b] => Empty(b)'
  <2>1. "cancelled" \in told[b] => Quiet(b)'
    BY <1>a, <1>3, QuietTurn
  <2>2. "gone" \in told[b] => Empty(b)'
    BY <1>a, <1>3, EmptyTurn
  <2>3. ASSUME NEW d \in Clients, Tells(d, b, "cancelled") PROVE Quiet(b)'
    BY <2>3, ReturningServes DEF Tells
  <2>4. ASSUME NEW d \in Clients, Tells(d, b, "gone") PROVE Empty(b)'
    BY <2>4, ReturningServes DEF Tells
  <2> QED BY <1>3, <2>1, <2>2, <2>3, <2>4
<1>4. ((Restore \/ Crash) /\ UNCHANGED told) \/ (\E c \in Clients : Client(c))
  BY DEF GrpcNext, Method, SubmitBatch, GetBatch, GetTask, ListBatches, CancelBatch, DeleteBatch,
         Works, Answers, Missing, Raises, Client, Silent
<1> QED BY <1>1, <1>2, <1>3, <1>4, Telling

\* While requests see their work through, the service agrees with what it has answered:
\* no task of a cancelled batch is open in memory or scheduled, and nothing of a deleted
\* one is left, through every other request, failure and restart.
THEOREM AnswersAgree == GrpcSpec /\ [][SeesItsWorkThrough]_vars => []AnswersAreServed
<1>1. GrpcInit => Served
  BY DEF GrpcInit, Served
<1>2. /\ Sound /\ ToldTyped /\ DeletedIsGone /\ CancelledIsWritten /\ Served
      /\ [GrpcNext]_<<vars, told>>
      => Served'
  <2>1. CASE UNCHANGED <<vars, told>>
    BY <2>1 DEF vars, memory, Served, Quiet, Empty, Held
  <2> QED BY <2>1, ServedStep
<1>3. Sound /\ Served => AnswersAreServed
  <2> SUFFICES ASSUME Sound, NEW b \in Batches, "cancelled" \in told[b], Quiet(b)
               PROVE  /\ b \notin DOMAIN scheduled
                      /\ b \in DOMAIN cache => OpenIn(objs[cache[b]].status) = {}
                      /\ \A t \in Tasks : index[b][t] # None => objs[index[b][t]].status[t] # "open"
    BY DEF Served, AnswersAreServed, Empty
  <2>1. b \in DOMAIN cache => cache[b] \in Objects /\ Held(cache[b], b)
    BY HeldIsNotFresh DEF Held
  <2>2. ASSUME NEW t \in Tasks, index[b][t] # None PROVE objs[index[b][t]].status[t] # "open"
    <3>1. index[b][t] \in Objects /\ Held(index[b][t], b)
      BY <2>2 DEF Sound, Typed, Held
    <3> QED BY <3>1 DEF Quiet, OpenIn
  <2> QED BY <2>1, <2>2 DEF Quiet
<1> QED BY <1>1, <1>2, <1>3, AlwaysWritten, PTL DEF GrpcSpec


-----------------------------------------------------------------------------
(* Cancellations alone.                                                     *)

\* A cancellation takes the rows of a batch in the order of its tasks: whoever holds the
\* row it awaits is further on.
LEMMA OrderPreventsDeadlock ==
  ASSUME Sound, "delete" \notin Ops, NEW c \in Clients
  PROVE  ~Deadlocked(c)
<1> SUFFICES ASSUME Deadlocked(c) PROVE FALSE
  OBVIOUS
<1>1. /\ \A d \in Clients : Stage(d) /\ Sweeping(d)
      /\ \A d \in Clients : req[d].pc = "marking" => req[d].at \in Nat
      /\ \A d \in Clients : req[d].pc = "committing" => req[d].op # "delete"
  BY SoundMeaning, BoundsAssumption DEF Sweeping, Stage, Tasks
<1> DEFINE n == req[c].at
           S == {d \in Clients : req[d].pc = "marking" => req[d].at > n}
<1>2. req[c].pc = "marking" /\ n \in Nat /\ c \notin S
  BY <1>1, DeadlockedWaits
<1>3. ASSUME NEW d \in Clients, req[d].pc = "marking" => req[d].at >= n PROVE AwaitedBy(d) \subseteq S
  <2> SUFFICES ASSUME NEW e \in Clients, WaitsFor(d, e), req[e].pc = "marking" PROVE req[e].at > n
    BY DEF AwaitedBy
  <2>1. req[d].pc = "marking" /\ req[d].at \in req[e].dirty
    BY <1>1 DEF WaitsFor
  <2>2. req[e].at > req[d].at
    BY <1>1, <2>1 DEF Sweeping
  <2> QED BY <1>1, <1>2, <1>3, <2>1, <2>2
<1>4. AwaitedBy(c) \subseteq S
  BY <1>2, <1>3
<1>5. \A d \in S : AwaitedBy(d) \subseteq S
  <2> SUFFICES ASSUME NEW d \in S PROVE AwaitedBy(d) \subseteq S
    OBVIOUS
  <2>1. req[d].pc = "marking" => req[d].at >= n
    BY <1>1, <1>2
  <2> QED BY <1>3, <2>1
<1>6. S \in SUBSET Clients
  OBVIOUS
<1> HIDE DEF S
<1> QED BY <1>2, <1>4, <1>5, <1>6 DEF Deadlocked

\* Where nothing is deleted, no two transactions ever wait for each other, however many
\* requests work on one batch.
THEOREM CancellationsDoNotDeadlock ==
  ASSUME "delete" \notin Ops
  PROVE  Spec => [](\A c \in Clients : ~Deadlocked(c))
<1>1. Sound => \A c \in Clients : ~Deadlocked(c)
  BY OrderPreventsDeadlock
<1> QED BY <1>1, AlwaysSound, PTL

\* Where nothing is deleted and no transaction of a creation or cancellation is broken off,
\* no persisted work is lost.
THEOREM NothingIsLostWithoutDeletions ==
  ASSUME "delete" \notin Ops, {"create", "cancel"} \cap MayFail = {}
  PROVE  Spec => []NoBatchIsLost
<1>1. Sound => SeesItsWorkThrough
  <2> SUFFICES ASSUME Sound, NEW c \in Clients
               PROVE  /\ req[c].pc = "created" => ~Abandon(c)
                      /\ ~(Sweeps(c) /\ req[c].id \in DOMAIN db /\ Fail(c))
    BY DEF SeesItsWorkThrough
  <2>1. /\ req[c].pc = "created" => req[c].op = "create"
        /\ Sweeps(c) => req[c].op = "cancel"
    BY SoundMeaning DEF Stage, Sweeps
  <2> QED BY <2>1, OrderPreventsDeadlock DEF Abandon, Fail
<1> QED BY <1>1, AlwaysSound, WorkIsKept, PTL
=============================================================================
