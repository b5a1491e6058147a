--------------------------- MODULE HeartbeatMonitor ---------------------------
(***************************************************************************)
(* start() and stop() of RoundRobinLoadBalancer and the tasks they make     *)
(* (application/scheduler/load_balancer.py), over the registry and the      *)
(* callers of LoadBalancer.                                                 *)
(*                                                                          *)
(* A monitor is a task: asleep between two sweeps; cancelling, from the     *)
(* call of cancel() to its next turn, in which CancelledError ends it       *)
(* wherever it was; gone.  start() never suspends and stop() suspends once, *)
(* awaiting the task it has cancelled, with the lifecycle lock held: what   *)
(* comes meanwhile waits for the lock.                                      *)
(***************************************************************************)
EXTENDS LoadBalancer

CONSTANTS
  Monitors,  \* pool of monitor tasks
  Managers   \* coroutines that call start() and stop()

ASSUME MonitorsAssumption == None \notin Monitors

VARIABLES
  monitor,   \* the state of each task
  current,   \* self._monitor_task
  manager,   \* per manager: the call it is in
  joined     \* per manager in stop(): the task it awaits

lifecycle == <<monitor, current, manager, joined>>
allVars == <<vars, lifecycle>>

Locked == \E k \in Managers : manager[k] = "joining"   \* self._lifecycle_lock
Running == current # None /\ monitor[current] = "asleep"

MonitorInit ==
  /\ Init
  /\ monitor = [m \in Monitors |-> "gone"]
  /\ current = None
  /\ manager = [k \in Managers |-> "idle"]
  /\ joined = [k \in Managers |-> None]

-----------------------------------------------------------------------------
(* The managers.  "starting" and "stopping" wait for the lock.              *)

Call(k) ==
  /\ manager[k] = "idle"
  /\ \E op \in {"starting", "stopping"} : manager' = [manager EXCEPT ![k] = op]
  /\ UNCHANGED <<monitor, current, joined>>

\* The caller is cancelled while it waits for the lock.
Leave(k) ==
  /\ manager[k] \in {"starting", "stopping"}
  /\ manager' = [manager EXCEPT ![k] = "idle"]
  /\ UNCHANGED <<monitor, current, joined>>

\* MUTANT: every start() makes a task.
NeedsMonitor_Always == TRUE
NeedsMonitor == current # None => monitor[current] = "gone"

Start(k) ==
  /\ manager[k] = "starting" /\ ~Locked
  /\ \/ /\ ~NeedsMonitor
        /\ UNCHANGED <<monitor, current>>
     \/ /\ NeedsMonitor
        /\ \E m \in Monitors : /\ monitor[m] = "gone"
                               /\ monitor' = [monitor EXCEPT ![m] = "asleep"]
                               /\ current' = m
  /\ manager' = [manager EXCEPT ![k] = "idle"]
  /\ UNCHANGED joined

\* MUTANT: the task is not cancelled.
CancelTask_Not(m) == monitor
CancelTask(m) == IF monitor[m] = "asleep" THEN [monitor EXCEPT ![m] = "cancelling"] ELSE monitor

\* MUTANT: stop() does not wait for the task it has cancelled.
AwaitPlace_None == "idle"
AwaitPlace == "joining"

Stop(k) ==
  /\ manager[k] = "stopping" /\ ~Locked
  /\ current' = None
  /\ IF current = None
     THEN manager' = [manager EXCEPT ![k] = "idle"] /\ UNCHANGED <<monitor, joined>>
     ELSE /\ monitor' = CancelTask(current)
          /\ joined' = [joined EXCEPT ![k] = current]
          /\ manager' = [manager EXCEPT ![k] = AwaitPlace]

\* The awaited task has ended.  A cancellation of stop() itself reaches that task
\* a second time and is swallowed with its CancelledError: stop() returns then, too.
Joined(k) ==
  /\ manager[k] = "joining"
  /\ monitor[joined[k]] = "gone"
  /\ manager' = [manager EXCEPT ![k] = "idle"]
  /\ joined' = [joined EXCEPT ![k] = None]
  /\ UNCHANGED <<monitor, current>>

\* The turn of a cancelled monitor.
Ends(m) ==
  /\ monitor[m] = "cancelling"
  /\ monitor' = [monitor EXCEPT ![m] = "gone"]
  /\ UNCHANGED <<current, manager, joined>>

\* Somebody else ends a monitor, as a framework that cancels every task does.
Dies(m) ==
  /\ monitor[m] = "asleep"
  /\ monitor' = [monitor EXCEPT ![m] = "gone"]
  /\ UNCHANGED <<current, manager, joined>>

-----------------------------------------------------------------------------
\* MUTANT: the monitor goes on sweeping when it is cancelled.
Awake_Cancelled(m) == monitor[m] # "gone"
Awake(m) == monitor[m] = "asleep"
\* The sleep of monitor m is over.
Sweep(m) == Awake(m) /\ MonitorWake /\ UNCHANGED lifecycle

Registry ==
  /\ \/ \E w \in Workers : Environment(w) \/ MonitorDrop(w)
     \/ \E d \in Dispatchers : Caller(d)
  /\ UNCHANGED lifecycle

Lifecycle ==
  /\ expiring = {}
  /\ \/ \E k \in Managers : Call(k) \/ Leave(k) \/ Start(k) \/ Stop(k) \/ Joined(k)
     \/ \E m \in Monitors : Ends(m) \/ Dies(m)
  /\ UNCHANGED vars

MonitorNext == Registry \/ (\E m \in Monitors : Sweep(m)) \/ Lifecycle

\* As in LoadBalancer: what is runnable runs.  A sleep ends, a cancelled task has
\* its turn, a call whose lock is free or whose task has ended goes on.
MonitorFairness ==
  /\ WF_allVars(\E m \in Monitors : Sweep(m))
  /\ \A w \in Workers : WF_allVars(MonitorDrop(w) /\ UNCHANGED lifecycle)
  /\ \A d \in Dispatchers : /\ SF_allVars((Serve(d) \/ Block(d)) /\ UNCHANGED lifecycle)
                            /\ SF_allVars(MarkAvailable(d) /\ UNCHANGED lifecycle)
  /\ \A m \in Monitors : SF_allVars(Ends(m) /\ expiring = {} /\ UNCHANGED vars)
  /\ \A k \in Managers : SF_allVars(Joined(k) /\ expiring = {} /\ UNCHANGED vars)

MonitorSpec == MonitorInit /\ [][MonitorNext]_allVars /\ MonitorFairness

-----------------------------------------------------------------------------
(* What makes it correct.                                                   *)

\* Every variable has its type, and a joining manager has a task.
LifecycleTypeOK ==
  /\ TypeOK
  /\ monitor \in [Monitors -> {"asleep", "cancelling", "gone"}]
  /\ current \in Monitors \cup {None}
  /\ manager \in [Managers -> {"idle", "starting", "stopping", "joining"}]
  /\ \A k \in Managers : joined[k] \in IF manager[k] = "joining" THEN Monitors ELSE {None}

\* "Start one monitor task; repeated calls are idempotent": whatever calls of start
\* and stop overlap, two monitors never run.
OneMonitor == \A m, n \in Monitors : monitor[m] # "gone" /\ monitor[n] # "gone" => m = n

\* "so no background task is left behind": a monitor that is alive is the current one
\* or is being awaited by a stop().
NoOrphan ==
  \A m \in Monitors :
    \/ monitor[m] = "gone" \/ m = current
    \/ \E k \in Managers : manager[k] = "joining" /\ joined[k] = m

\* After stop() no sweep runs any more: no worker expires while no monitor is current.
NoSweepAfterStop == [][expiring = {} /\ expiring' # {} => current # None]_allVars

\* A stop() that has begun ends, so that the lock is free again.
StopsEnd == \A k \in Managers : manager[k] = "joining" ~> manager[k] # "joining"

\* While a monitor runs, a worker that falls silent leaves the registry, unless it
\* is heard of again or its heartbeat is forgotten.
Silent(w) == w \in Registered /\ workers[w].heartbeat = "stale"
SilentWorkersExpire ==
  \A w \in Workers : (Silent(w) /\ Running) ~> ~(Silent(w) /\ Running)
=============================================================================
