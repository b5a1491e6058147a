------------------------------ MODULE WorkerPool ------------------------------
(***************************************************************************)
(* What the interface LoadBalancer (application/scheduler/load_balancer.py)*)
(* promises, without the means: a pool of workers that has no order, no    *)
(* slots, no tombstones, no lazily noticed full workers and no monitor.    *)
(* A caller may be given any worker that is free for its language, goes to *)
(* sleep only when there is none, and is woken by whatever makes one free. *)
(* LoadBalancer.tla is shown to implement this module.                     *)
(***************************************************************************)
EXTENDS Integers

CONSTANTS
  Workers,      \* worker ids
  Languages,    \* languages a worker can support and a caller can ask for
  Dispatchers,  \* coroutines that call get_worker
  Offers        \* what a worker can join with: its languages and its room

VARIABLES
  pool,   \* a function from the workers in the pool to [langs, room]
  phase,  \* per caller: where it is (the Places of LoadBalancer)
  ask,    \* per caller: the language it asked for
  using   \* per caller: the worker it was given

vars == <<pool, phase, ask, using>>

None == "none"
Pooled == DOMAIN pool
Free(w, l) == w \in Pooled /\ l \in pool[w].langs /\ pool[w].room > 0
ReleaseDue(w) == \E d \in Dispatchers : phase[d] = "released" /\ using[d] = w

\* The callers once w has left or joined anew and the sleepers of ls are woken.
PhaseAfter(w, ls) ==
  [d \in Dispatchers |->
     IF phase[d] = "waiting" /\ ask[d] \in ls THEN "ready"
     ELSE IF using[d] = w /\ phase[d] \in {"offered", "running"} THEN "detached"
     ELSE phase[d]]

Init ==
  /\ pool = [w \in {} |-> None]
  /\ phase = [d \in Dispatchers |-> "idle"]
  /\ ask = [d \in Dispatchers |-> None]
  /\ using = [d \in Dispatchers |-> None]

\* A worker joins, or joins anew with all its room: who waits for it wakes up.
Join(w, o) ==
  /\ pool' = [x \in Pooled \cup {w} |-> IF x = w THEN o ELSE pool[x]]
  /\ phase' = PhaseAfter(w, IF o.room > 0 THEN o.langs ELSE {})
  /\ UNCHANGED <<ask, using>>

\* A worker leaves or is dropped; who runs on it runs on.
Leave(w) ==
  /\ w \in Pooled
  /\ pool' = [x \in Pooled \ {w} |-> pool[x]]
  /\ phase' = PhaseAfter(w, {})
  /\ UNCHANGED <<ask, using>>

Request(d, l) ==
  /\ phase[d] = "idle"
  /\ phase' = [phase EXCEPT ![d] = "ready"]
  /\ ask' = [ask EXCEPT ![d] = l]
  /\ UNCHANGED <<pool, using>>

\* The caller takes w, and its room at once or in a later step.
HandOut(d, w) ==
  /\ phase[d] = "ready"
  /\ Free(w, ask[d])
  /\ using' = [using EXCEPT ![d] = w]
  /\ ask' = [ask EXCEPT ![d] = None]
  /\ \/ /\ pool' = [pool EXCEPT ![w].room = @ - 1]
        /\ phase' = [phase EXCEPT ![d] = "running"]
     \/ /\ phase' = [phase EXCEPT ![d] = "offered"]
        /\ UNCHANGED pool

\* Nobody goes to sleep beside a free worker, unless it is about to be announced.
Sleep(d) ==
  /\ phase[d] = "ready"
  /\ \A w \in Pooled : Free(w, ask[d]) => ReleaseDue(w)
  /\ phase' = [phase EXCEPT ![d] = "waiting"]
  /\ UNCHANGED <<pool, ask, using>>

GiveUp(d) ==
  /\ phase[d] \in {"ready", "waiting"}
  /\ phase' = [phase EXCEPT ![d] = "idle"]
  /\ ask' = [ask EXCEPT ![d] = None]
  /\ UNCHANGED <<pool, using>>

Claim(d) ==
  /\ phase[d] = "offered"
  /\ pool' = [pool EXCEPT ![using[d]].room = @ - 1]
  /\ phase' = [phase EXCEPT ![d] = "running"]
  /\ UNCHANGED <<ask, using>>

Decline(d) ==
  /\ phase[d] = "offered"
  /\ phase' = [phase EXCEPT ![d] = "idle"]
  /\ using' = [using EXCEPT ![d] = None]
  /\ UNCHANGED <<pool, ask>>

\* The work ends; only a worker that has not left or joined anew gets room back.
Finish(d) ==
  /\ phase[d] \in {"running", "detached"}
  /\ pool' = IF phase[d] = "running"
             THEN [pool EXCEPT ![using[d]].room = @ + 1] ELSE pool
  /\ phase' = [phase EXCEPT ![d] = "released"]
  /\ UNCHANGED <<ask, using>>

\* The room is announced: if there is any, everybody who waits for it wakes up.
Announce(d) ==
  LET w == using[d]
      woken == IF w \in Pooled /\ pool[w].room > 0 THEN pool[w].langs ELSE {} IN
  /\ phase[d] = "released"
  /\ phase' = [PhaseAfter(None, woken) EXCEPT ![d] = "idle"]
  /\ using' = [using EXCEPT ![d] = None]
  /\ UNCHANGED <<pool, ask>>

Caller(d) ==
  \/ \E l \in Languages : Request(d, l)
  \/ \E w \in Workers : HandOut(d, w)
  \/ Sleep(d) \/ GiveUp(d) \/ Claim(d) \/ Decline(d) \/ Finish(d) \/ Announce(d)

Next ==
  \/ \E w \in Workers : Leave(w) \/ \E o \in Offers : Join(w, o)
  \/ \E d \in Dispatchers : Caller(d)

Spec == Init /\ [][Next]_vars
=============================================================================
