\* A hand-out while a shutdown waits for the database.
CONSTANTS
  Workers = {w1}
  Profiles = {p1, p2}
  Objects = {o1, o2}
  Clients = {c1, c2}
  MayFail = {}
  MayCrash = FALSE
  Serial = TRUE
SYMMETRY Interchangeable
SPECIFICATION Spec
INVARIANTS
  OfflineStaysOffline
