\* Callers that add their workload in the turn get_worker returns, and profiles
\* without room; no symmetry, for liveness.
CONSTANTS
  pt = pt  en = en
  Workers = {w1, w2}
  Languages = {pt}
  Dispatchers = {d1, d2}
  Profiles <- MCProfilesEdge
  ClaimAtOnce = TRUE
SPECIFICATION FairSpec
INVARIANTS
  CapacityIsRespected
PROPERTIES
  WaitersAreServed
  RotationIsFair
