\* Each worker has one request in flight; requests fail, or are cut off before or after
\* their commit; the process crashes and comes back with the same master_id or another one.
CONSTANTS
  Workers = {w1, w2}
  Profiles = {p1, p2}
  Objects = {o1, o2, o3}
  Clients = {c1, c2}
  MayFail = {"register", "shutdown"}
  MayCrash = TRUE
  Serial = TRUE
SYMMETRY Interchangeable
SPECIFICATION MasterSpec
INVARIANTS
  TypeOK
  RegistryAgreesWithTable
  TrackedWorkersCanExpire
  GoneIsUntracked
  ConnectedIsTracked
