\* Two managers and two monitor tasks; no symmetry, for liveness.
CONSTANTS
  pt = pt
  Workers = {w1, w2}
  Languages = {pt}
  Dispatchers = {d1}
  Profiles <- MCProfiles
  ClaimAtOnce = TRUE
  Monitors = {m1, m2}
  Managers = {k1, k2}
SPECIFICATION MonitorSpec
INVARIANTS
  LifecycleTypeOK
  OneMonitor
  NoOrphan
PROPERTIES
  NoSweepAfterStop
  StopsEnd
  SilentWorkersExpire
