---------------------------- MODULE MonitorProofs ----------------------------
(***************************************************************************)
(* start() and stop() for any number of workers, callers and monitors:     *)
(* they do not disturb the balancer, and no monitor is left behind.        *)
(***************************************************************************)
EXTENDS HeartbeatMonitor, LoadBalancerProofs

-----------------------------------------------------------------------------
(* The balancer cannot tell that its monitor comes and goes.                *)

LEMMA BalancerStep ==
  ASSUME [MonitorNext]_allVars
  PROVE  [Next]_vars
<1>1. CASE Registry
  BY <1>1 DEF Registry, Next, Monitor
<1>2. ASSUME NEW m \in Monitors, Sweep(m) PROVE Next
  BY <1>2 DEF Sweep, Next, Monitor
<1>3. CASE Lifecycle
  BY <1>3 DEF Lifecycle
<1>4. CASE UNCHANGED allVars
  BY <1>4 DEF allVars
<1> QED BY <1>1, <1>2, <1>3, <1>4 DEF MonitorNext

\* Whatever start() and stop() do, the balancer with them is one of the behaviours
\* of the balancer whose monitor may wake at any time: all that is proved of Spec
\* is true of MonitorSpec.
THEOREM LifecycleRefinesBalancer == MonitorSpec => Spec
<1>1. MonitorInit => Init
  BY DEF MonitorInit
<1>2. [MonitorNext]_allVars => [Next]_vars
  BY BalancerStep
<1> QED BY <1>1, <1>2, PTL DEF MonitorSpec, Spec

-----------------------------------------------------------------------------
(* The inductive invariant: what sleeps is current, what is cancelled is     *)
(* awaited, and only one stop() is past the lock, with nothing current.      *)

LifecycleTypes ==
  /\ monitor \in [Monitors -> {"asleep", "cancelling", "gone"}]
  /\ current \in Monitors \cup {None}
  /\ manager \in [Managers -> {"idle", "starting", "stopping", "joining"}]
  /\ joined \in [Managers -> Monitors \cup {None}]
  /\ \A k \in Managers : joined[k] \in IF manager[k] = "joining" THEN Monitors ELSE {None}

AsleepIsCurrent == \A m \in Monitors : monitor[m] = "asleep" => m = current
CancelledIsAwaited ==
  \A m \in Monitors : monitor[m] = "cancelling" =>
    \E k \in Managers : manager[k] = "joining" /\ joined[k] = m
OneStop ==
  /\ Locked => current = None
  /\ \A k, j \in Managers : manager[k] = "joining" /\ manager[j] = "joining" => k = j

Tended == LifecycleTypes /\ AsleepIsCurrent /\ CancelledIsAwaited /\ OneStop

LEMMA TendedStep ==
  ASSUME Tended, [MonitorNext]_allVars
  PROVE  Tended'
<1> USE DEF Tended
<1>1. CASE UNCHANGED lifecycle
  BY <1>1 DEF lifecycle, LifecycleTypes, AsleepIsCurrent, CancelledIsAwaited, OneStop, Locked
<1>2. ASSUME NEW k \in Managers, Call(k) \/ Leave(k) PROVE Tended'
  BY <1>2 DEF Call, Leave, LifecycleTypes, AsleepIsCurrent, CancelledIsAwaited, OneStop, Locked
<1>3. ASSUME NEW k \in Managers, Start(k) PROVE Tended'
  <2>1. /\ manager[k] = "starting" /\ ~Locked
        /\ manager' = [manager EXCEPT ![k] = "idle"] /\ joined' = joined
    BY <1>3 DEF Start
  <2>2. CASE UNCHANGED <<monitor, current>>
    BY <2>1, <2>2 DEF LifecycleTypes, AsleepIsCurrent, CancelledIsAwaited, OneStop, Locked
  <2>3. ASSUME NeedsMonitor,
               NEW m \in Monitors, monitor' = [monitor EXCEPT ![m] = "asleep"], current' = m
        PROVE  Tended'
    <3>1. \A n \in Monitors : monitor[n] = "gone"
      BY <2>1, <2>3, MonitorsAssumption
         DEF NeedsMonitor, LifecycleTypes, AsleepIsCurrent, CancelledIsAwaited, Locked
    <3> QED BY <2>1, <2>3, <3>1
            DEF LifecycleTypes, AsleepIsCurrent, CancelledIsAwaited, OneStop, Locked
  <2> QED BY <1>3, <2>2, <2>3 DEF Start
<1>4. ASSUME NEW k \in Managers, Stop(k) PROVE Tended'
  <2>1. manager[k] = "stopping" /\ ~Locked /\ current' = None
    BY <1>4 DEF Stop
  <2>2. CASE current = None
    BY <1>4, <2>1, <2>2 DEF Stop, LifecycleTypes, AsleepIsCurrent, CancelledIsAwaited, OneStop, Locked
  <2>3. CASE current # None
    <3>1. /\ monitor' = CancelTask(current)
          /\ joined' = [joined EXCEPT ![k] = current]
          /\ manager' = [manager EXCEPT ![k] = "joining"]
          /\ current \in Monitors
      BY <1>4, <2>3 DEF Stop, AwaitPlace, LifecycleTypes
    <3>2. \A n \in Monitors : monitor[n] # "cancelling" /\ (n # current => monitor[n] = "gone")
      BY <2>1 DEF LifecycleTypes, AsleepIsCurrent, CancelledIsAwaited, Locked
    <3>3. LifecycleTypes'
      BY <2>1, <3>1 DEF LifecycleTypes, CancelTask
    <3>4. AsleepIsCurrent' /\ CancelledIsAwaited'
      BY <3>1, <3>2 DEF LifecycleTypes, CancelTask, AsleepIsCurrent, CancelledIsAwaited
    <3>5. OneStop'
      BY <2>1, <3>1 DEF OneStop, Locked, LifecycleTypes
    <3> QED BY <3>3, <3>4, <3>5
  <2> QED BY <2>2, <2>3
<1>5. ASSUME NEW k \in Managers, Joined(k) PROVE Tended'
  <2>1. /\ manager[k] = "joining" /\ monitor[joined[k]] = "gone"
        /\ manager' = [manager EXCEPT ![k] = "idle"]
        /\ joined' = [joined EXCEPT ![k] = None]
        /\ UNCHANGED <<monitor, current>>
    BY <1>5 DEF Joined
  <2>2. LifecycleTypes' /\ AsleepIsCurrent' /\ OneStop'
    BY <2>1 DEF LifecycleTypes, AsleepIsCurrent, OneStop, Locked
  <2>3. CancelledIsAwaited'
    BY <2>1 DEF CancelledIsAwaited, LifecycleTypes
  <2> QED BY <2>2, <2>3
<1>6. ASSUME NEW m \in Monitors, Ends(m) \/ Dies(m) PROVE Tended'
  BY <1>6 DEF Ends, Dies, LifecycleTypes, AsleepIsCurrent, CancelledIsAwaited, OneStop, Locked
<1>7. CASE Lifecycle
  BY <1>2, <1>3, <1>4, <1>5, <1>6, <1>7 DEF Lifecycle
<1> QED BY <1>1, <1>7 DEF MonitorNext, Registry, Sweep, allVars

LEMMA TendedMeaning ==
  ASSUME Tended
  PROVE  OneMonitor /\ NoOrphan
<1>1. ASSUME NEW m \in Monitors, NEW n \in Monitors, monitor[m] # "gone", monitor[n] # "gone"
      PROVE  m = n
  <2>1. ASSUME NEW a \in Monitors, NEW b \in Monitors, monitor[a] = "asleep"
        PROVE  monitor[b] # "cancelling"
    BY <2>1, MonitorsAssumption DEF Tended, AsleepIsCurrent, CancelledIsAwaited, OneStop, Locked
  <2>2. CASE monitor[m] = "asleep"
    BY <1>1, <2>1, <2>2 DEF Tended, LifecycleTypes, AsleepIsCurrent
  <2>3. CASE monitor[m] = "cancelling"
    <3>1. monitor[n] = "cancelling"
      BY <1>1, <2>1, <2>3 DEF Tended, LifecycleTypes
    <3> QED BY <2>3, <3>1 DEF Tended, CancelledIsAwaited, OneStop
  <2> QED BY <1>1, <2>2, <2>3 DEF Tended, LifecycleTypes
<1>2. NoOrphan
  BY DEF Tended, LifecycleTypes, AsleepIsCurrent, CancelledIsAwaited, NoOrphan
<1> QED BY <1>1, <1>2 DEF OneMonitor

LEMMA AlwaysTended == MonitorSpec => []Tended
<1>1. MonitorInit => Tended
  BY DEF MonitorInit, Tended, LifecycleTypes, AsleepIsCurrent, CancelledIsAwaited, OneStop, Locked
<1>2. Tended /\ [MonitorNext]_allVars => Tended'
  BY TendedStep
<1> QED BY <1>1, <1>2, PTL DEF MonitorSpec

\* The variables keep their types, those of the balancer included.
THEOREM LifecycleTyped == MonitorSpec => []LifecycleTypeOK
<1>1. TypeOK /\ Tended => LifecycleTypeOK
  BY DEF Tended, LifecycleTypes, LifecycleTypeOK
<1> QED BY <1>1, AlwaysTended, LifecycleRefinesBalancer, TypesAndSlots, PTL

\* However many calls of start() and stop() overlap, one monitor runs at most, and
\* one that is alive is known: it is current or a stop() is waiting for it.
THEOREM MonitorIsTended == MonitorSpec => [](OneMonitor /\ NoOrphan)
<1>1. Tended => OneMonitor /\ NoOrphan
  BY TendedMeaning
<1> QED BY <1>1, AlwaysTended, PTL

-----------------------------------------------------------------------------
LEMMA SweepStep ==
  ASSUME Tended, [MonitorNext]_allVars, expiring = {}, expiring' # {}
  PROVE  current # None
<1>1. ASSUME NEW w \in Workers, Environment(w) \/ MonitorDrop(w) PROVE expiring' = {}
  BY <1>1 DEF Environment, Register, Reregister, Unregister, MonitorDrop, Heartbeat,
              ForgetHeartbeat, Age, SetHeartbeat
<1>2. ASSUME NEW d \in Dispatchers, Caller(d) PROVE expiring' = {}
  BY <1>2 DEF Caller, Request, Serve, Block, GiveUp, Claim, Decline, Finish, MarkAvailable
<1>3. ASSUME NEW m \in Monitors, Sweep(m) PROVE current # None
  BY <1>3, MonitorsAssumption DEF Sweep, Awake, Tended, AsleepIsCurrent
<1> QED BY <1>1, <1>2, <1>3 DEF MonitorNext, Registry, Lifecycle, allVars, vars

\* Once stop() has taken the monitor away, no sweep begins until start() makes
\* another one.
THEOREM SweepsNeedAMonitor == MonitorSpec => NoSweepAfterStop
<1>1. Tended /\ [MonitorNext]_allVars => [expiring = {} /\ expiring' # {} => current # None]_allVars
  BY SweepStep
<1> QED BY <1>1, AlwaysTended, PTL DEF MonitorSpec, NoSweepAfterStop
=============================================================================
