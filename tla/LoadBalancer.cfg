\* Callers that add their workload in a later turn than get_worker's return.
CONSTANTS
  pt = pt  en = en
  Workers = {w1, w2}
  Languages = {pt, en}
  Dispatchers = {d1, d2}
  Profiles <- MCProfiles
  ClaimAtOnce = FALSE
SYMMETRY Interchangeable
SPECIFICATION Spec
INVARIANTS
  TypeOK
  SlotsAreUnique
  TombstonesAreTheDeadSlots
  NoWorkerIsLost
  FullSetIsTheParkedWorkers
  NoLostWakeup
  WorkloadCountsCallers
PROPERTIES
  HandoutsAreSound
  ImplementsPool
