\* Liveness: no symmetry; every transaction may fail, or be broken off by its caller.
CONSTANTS
  NumBatches = 1
  NumTasks = 2
  Objects = {o1, o2}
  Clients = {c1, c2}
  Ops = {"create", "cancel", "delete", "get"}
  MayFail = {"create", "cancel", "delete", "get"}
  MayCrash = FALSE
SPECIFICATION GrpcFairSpec
\* When no id is left and every batch is deleted, the requests have nothing to name.
CHECK_DEADLOCK FALSE
PROPERTIES
  RequestsEnd
