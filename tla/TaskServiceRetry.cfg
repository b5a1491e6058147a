\* A cancellation whose transaction fails, and its retry.
CONSTANTS
  NumBatches = 1
  NumTasks = 2
  Objects = {o1, o2}
  Clients = {c1}
  Ops = {"create", "cancel"}
  MayFail = {"cancel"}
  MayCrash = FALSE
SYMMETRY Interchangeable
SPECIFICATION Spec
\* The one batch may be deleted and no id be left.
CHECK_DEADLOCK FALSE
INVARIANTS
  SettledIsDurable
