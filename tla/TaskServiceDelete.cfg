\* A listing beside a deletion of the same batch.
CONSTANTS
  NumBatches = 1
  NumTasks = 2
  Objects = {o1, o2}
  Clients = {c1, c2}
  Ops = {"list", "delete"}
  MayFail = {}
  MayCrash = FALSE
SYMMETRY Interchangeable
SPECIFICATION Spec
\* The one batch may be deleted and no id be left.
CHECK_DEADLOCK FALSE
INVARIANTS
  DeletedIsForgotten
