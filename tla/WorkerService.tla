---------------------------- MODULE WorkerService ----------------------------
(***************************************************************************)
(* WorkerServiceImpl (application/services/worker_service.py): the workers *)
(* the database knows and the ones the load balancer tracks, under         *)
(* registrations and shutdowns that wait for the database, heartbeats, the *)
(* monitor, hand-outs, failing transactions, requests that are cut off     *)
(* after their commit, and crashes.                                        *)
(*                                                                         *)
(* Grain.  A request runs in turns of the event loop that end where it     *)
(* awaits the database; each turn is an action, and a transaction takes    *)
(* effect at its commit.  Of the load balancer only the registry matters   *)
(* here (LoadBalancer.tla has the rest): was_registered chooses between    *)
(* two ways to replace an entity there that leave the same registry.       *)
(*                                                                         *)
(* Worker entities are objects: the registry, the requests and whoever     *)
(* get_worker served share them.  What a worker announces (languages,      *)
(* capacity, address) is a member of Profiles; of the status only OFFLINE  *)
(* matters, the others follow from the workload.                           *)
(***************************************************************************)
EXTENDS Integers, FiniteSets, Functions

CONSTANTS
  Workers,   \* worker ids
  Profiles,  \* what a worker can announce
  Objects,   \* pool of Worker entities (bounds how many live at once)
  Clients,   \* requests in flight at once
  MayFail,   \* the requests whose transaction may fail, or that may be cut off after it
  MayCrash,  \* whether the process may crash
  Serial     \* TRUE: a worker has one request in flight at a time

ASSUME ModeAssumption ==
  /\ MayFail \subseteq {"register", "shutdown"}
  /\ MayCrash \in BOOLEAN /\ Serial \in BOOLEAN

VARIABLES
  table,     \* committed rows: worker id -> profile
  up,        \* whether the service runs (and has restored its workers)
  registry,  \* load_balancer.workers: worker id -> object
  objs,      \* the entities: profile, status and heartbeat of each object
  req,       \* per client: its request
  gone,      \* workers whose shutdown was reported and that have not come back
  broken     \* history: the marks and rows that requests left behind when they broke
             \* off, until something repairs them

vars == <<table, up, registry, objs, req, gone, broken>>

None == "none"
ASSUME NoneAssumption == None \notin Workers \cup Objects
Registered == DOMAIN registry
Unused == [profile |-> None, status |-> "online", heartbeat |-> "none"]
Idle == [op |-> None, pc |-> "idle", id |-> None, obj |-> None, add |-> FALSE]

\* idle.  finding: reading the worker's row.  saving: the transaction that adds
\* or updates the row.  saved: the turn after its commit.
Places == {"idle", "finding", "saving", "saved"}

-----------------------------------------------------------------------------
Put(f, k, v) == [x \in DOMAIN f \cup {k} |-> IF x = k THEN v ELSE f[x]]
Without(f, k) == Restrict(f, DOMAIN f \ {k})
Becomes(c, r) == req' = [req EXCEPT ![c] = r]
Working(w) == \E c \in Clients : req[c].id = w
CanStart(c, w) == up /\ req[c] = Idle /\ ~(Serial /\ Working(w))

Live == {registry[w] : w \in Registered} \cup {req[c].obj : c \in Clients}
Fresh(o) == o \in Objects \ Live

\* MUTANT: _prepare_worker_for_connection forgets the heartbeat.
Connected_Unheard(p) == [profile |-> p, status |-> "online", heartbeat |-> "none"]
Connected(p) == [profile |-> p, status |-> "online", heartbeat |-> "fresh"]

-----------------------------------------------------------------------------
Init ==
  /\ \E known \in SUBSET Workers : table \in [known -> Profiles]
  /\ up = FALSE
  /\ registry = [w \in {} |-> None]
  /\ objs = [o \in Objects |-> Unused]
  /\ req = [c \in Clients |-> Idle]
  /\ gone = {} /\ broken = {}

\* restore_known_workers(), which nothing runs beside: every row is registered.
Restore ==
  /\ ~up
  /\ up' = TRUE
  /\ \E new \in Injection(DOMAIN table, Objects) :
       /\ registry' = new
       /\ objs' = [o \in Objects |->
                     IF \E w \in DOMAIN table : new[w] = o
                     THEN Connected(table[CHOOSE w \in DOMAIN table : new[w] = o])
                     ELSE Unused]
  /\ UNCHANGED <<table, req, gone, broken>>

Crash ==
  /\ MayCrash /\ up
  /\ up' = FALSE
  /\ registry' = [w \in {} |-> None]
  /\ req' = [c \in Clients |-> Idle]
  /\ objs' = [o \in Objects |-> Unused]
  /\ gone' = {} /\ broken' = {}
  /\ UNCHANGED table

-----------------------------------------------------------------------------
(* register_worker.                                                         *)

\* The worker is found in the registry, or its row has to be read.
Register(c, w, p) ==
  /\ CanStart(c, w)
  /\ \E o \in Objects :
       /\ Fresh(o)
       /\ objs' = [objs EXCEPT ![o] = Connected(p)]
       /\ Becomes(c, [op |-> "register", id |-> w, obj |-> o, add |-> FALSE,
                      pc |-> IF w \in Registered THEN "saving" ELSE "finding"])
  /\ UNCHANGED <<table, up, registry, gone, broken>>

RegisterFound(c) ==
  LET r == req[c] IN
  /\ r.op = "register" /\ r.pc = "finding"
  /\ Becomes(c, [r EXCEPT !.pc = "saving", !.add = r.id \notin DOMAIN table])
  /\ UNCHANGED <<table, up, registry, objs, gone, broken>>

\* MUTANT: a worker that is known already keeps the row it has.
Row_Kept(r) == IF r.id \in DOMAIN table THEN table[r.id] ELSE objs[r.obj].profile
\* MUTANT: the row leaves out what the worker announces.
Row_Blank(r) == None
\* The row that add() inserts, or update() merges the whole entity into.
Row(r) == objs[r.obj].profile

\* The transaction of either request; add() of a row that is there fails.
Save(c) ==
  LET r == req[c] IN
  /\ r.pc = "saving"
  /\ ~(r.add /\ r.id \in DOMAIN table)
  /\ table' = Put(table, r.id, Row(r))
  /\ Becomes(c, [r EXCEPT !.pc = "saved"])
  /\ broken' = broken \ {<<"register", r.id>>}
  /\ UNCHANGED <<up, registry, objs, gone>>

\* What a request leaves behind that ends here: a shutdown has taken the heartbeat
\* from the entity, a registration that committed has written its row.
Leaves(r) ==
  IF r.pc = "saved" \/ (r.pc = "saving" /\ r.op = "shutdown") THEN {<<r.op, r.id>>} ELSE {}

\* It fails, or is cut off, before its commit.
Fail(c) ==
  LET r == req[c] IN
  /\ \/ r.op \in MayFail /\ r.pc \in {"finding", "saving"}
     \/ r.pc = "saving" /\ r.add /\ r.id \in DOMAIN table
  /\ Becomes(c, Idle)
  /\ broken' = broken \cup Leaves(r)
  /\ UNCHANGED <<table, up, registry, objs, gone>>

\* The caller cancels the request while the session is closed after its commit, or
\* the commit loses its reply: the balancer is not told.
Abandon(c) ==
  LET r == req[c] IN
  /\ r.op \in MayFail /\ r.pc = "saved"
  /\ Becomes(c, Idle)
  /\ broken' = broken \cup Leaves(r)
  /\ UNCHANGED <<table, up, registry, objs, gone>>

\* The new entity replaces the registered one, if any.
RegisterReturn(c) ==
  LET r == req[c] IN
  /\ r.op = "register" /\ r.pc = "saved"
  /\ registry' = Put(registry, r.id, r.obj)
  /\ objs' = [objs EXCEPT ![r.obj] = Connected(@.profile)]
  /\ gone' = gone \ {r.id}
  /\ broken' = broken \ {<<"shutdown", r.id>>}
  /\ Becomes(c, Idle)
  /\ UNCHANGED <<table, up>>

-----------------------------------------------------------------------------
(* shutdown_worker.                                                         *)

Offline(e) == [e EXCEPT !.status = "offline", !.heartbeat = "none"]

\* The registered entity is marked at once; else the row has to be read.
Shutdown(c, w) ==
  /\ CanStart(c, w)
  /\ IF w \in Registered
     THEN /\ objs' = [objs EXCEPT ![registry[w]] = Offline(@)]
          /\ Becomes(c, [op |-> "shutdown", id |-> w, obj |-> registry[w], add |-> FALSE,
                         pc |-> "saving"])
     ELSE /\ Becomes(c, [Idle EXCEPT !.op = "shutdown", !.id = w, !.pc = "finding"])
          /\ UNCHANGED objs
  /\ UNCHANGED <<table, up, registry, gone, broken>>

\* A worker without a row is unknown: False is returned.
ShutdownFound(c) ==
  LET r == req[c] IN
  /\ r.op = "shutdown" /\ r.pc = "finding"
  /\ \/ /\ r.id \in DOMAIN table
        /\ \E o \in Objects :
             /\ Fresh(o)
             /\ objs' = [objs EXCEPT ![o] = Offline(Connected(table[r.id]))]
             /\ Becomes(c, [r EXCEPT !.pc = "saving", !.obj = o])
     \/ /\ r.id \notin DOMAIN table
        /\ Becomes(c, Idle)
        /\ UNCHANGED objs
  /\ UNCHANGED <<table, up, registry, gone, broken>>

\* MUTANT: the worker stays in the registry.
Untracked_Kept(w) == registry
\* Whatever entity is registered by then under the id is removed.
Untracked(w) == Without(registry, w)

ShutdownReturn(c) ==
  LET r == req[c] IN
  /\ r.op = "shutdown" /\ r.pc = "saved"
  /\ registry' = Untracked(r.id)
  /\ gone' = gone \cup {r.id}
  /\ Becomes(c, Idle)
  /\ UNCHANGED <<table, up, objs, broken>>

-----------------------------------------------------------------------------
(* What goes on beside the requests.                                        *)

\* A change to the registered entity of w.
Touch(w, e) ==
  /\ up /\ w \in Registered
  /\ objs' = [objs EXCEPT ![registry[w]] = e]
  /\ UNCHANGED <<table, up, registry, req, gone>>

Heartbeat(w) ==
  /\ w \in Registered /\ Touch(w, [objs[registry[w]] EXCEPT !.heartbeat = "fresh"])
  /\ broken' = broken \ {<<"shutdown", w>>}

\* heartbeat_timeout passes.
Age(w) ==
  /\ w \in Registered /\ objs[registry[w]].heartbeat = "fresh"
  /\ Touch(w, [objs[registry[w]] EXCEPT !.heartbeat = "stale"])
  /\ UNCHANGED broken

\* get_worker asks is_available(), which sets the status by the workload.
HandOut(w) ==
  /\ w \in Registered /\ Touch(w, [objs[registry[w]] EXCEPT !.status = "online"])
  /\ UNCHANGED broken

\* The monitor drops a worker not heard of.
Expire(w) ==
  /\ up /\ w \in Registered /\ objs[registry[w]].heartbeat = "stale"
  /\ registry' = Without(registry, w)
  /\ UNCHANGED <<table, up, objs, req, gone, broken>>

-----------------------------------------------------------------------------
Client(c) ==
  \/ \E w \in Workers : Shutdown(c, w) \/ \E p \in Profiles : Register(c, w, p)
  \/ RegisterFound(c) \/ ShutdownFound(c) \/ Save(c)
  \/ Fail(c) \/ Abandon(c) \/ RegisterReturn(c) \/ ShutdownReturn(c)

Worker(w) == Heartbeat(w) \/ Age(w) \/ HandOut(w) \/ Expire(w)

Next ==
  \/ Restore \/ Crash
  \/ \E c \in Clients : Client(c)
  \/ \E w \in Workers : Worker(w)

Spec == Init /\ [][Next]_vars

-----------------------------------------------------------------------------
\* Every variable has its type; no two workers share an entity, and a request has
\* the entity its place needs.
TypeOK ==
  /\ DOMAIN table \subseteq Workers /\ table \in [DOMAIN table -> Profiles]
  /\ up \in BOOLEAN
  /\ Registered \subseteq Workers /\ IsInjective(registry)
  /\ registry \in [Registered -> Objects]
  /\ objs \in [Objects -> [profile : Profiles \cup {None}, status : {"online", "offline"},
                           heartbeat : {"fresh", "stale", "none"}]]
  /\ gone \subseteq Workers /\ broken \subseteq {"register", "shutdown"} \X Workers
  /\ \A c \in Clients :
       /\ req[c].pc \in Places
       /\ req[c].pc # "idle" => up /\ req[c].id \in Workers
       /\ req[c].pc \in {"saving", "saved"} => req[c].obj \in Objects

\* What the balancer schedules by is what a restart would restore: a tracked
\* worker has a row, with the profile it is tracked under.  They differ for one
\* reason only, a registration that committed and was cut off before it told the
\* balancer, and no longer than until the row is written again.
RegistryAgreesWithTable ==
  \A w \in Registered :
    /\ w \in DOMAIN table
    /\ \/ objs[registry[w]].profile = table[w]
       \/ Working(w) \/ <<"register", w>> \in broken

\* No immortal workers: a tracked worker has a heartbeat, without which the monitor
\* never drops it.  One is passed over for one reason only, a shutdown that is at
\* work or has broken off, and no longer than until it is heard of again.
TrackedWorkersCanExpire ==
  \A w \in Registered :
    objs[registry[w]].heartbeat = "none" => Working(w) \/ <<"shutdown", w>> \in broken

\* "Mark a worker as offline and remove it from active tracking": once that has
\* been reported, the worker is not tracked until it registers again.
GoneIsUntracked == gone \cap Registered = {}

\* The same words, of the time before: a worker that shutdown_worker has marked
\* offline is offline until it has left the registry.
OfflineStaysOffline ==
  \A c \in Clients :
    req[c].op = "shutdown" /\ req[c].pc \in {"saving", "saved"} =>
      objs[req[c].obj].status = "offline"
=============================================================================
