\* Every request, three at a time, on one batch, with crashes anywhere.
CONSTANTS
  NumBatches = 1
  NumTasks = 2
  Objects = {o1, o2, o3}
  Clients = {c1, c2, c3}
  Ops = {"create", "cancel", "delete", "get", "task", "list"}
  MayFail = {"get", "list"}
  MayCrash = TRUE
SYMMETRY Interchangeable
SPECIFICATION GrpcSpec
INVARIANTS
  TypeOK
  NoBatchIsLost
  NoGhostWork
  CacheIsNotBehind
  AnswersAreDurable
  AnswersAreServed
