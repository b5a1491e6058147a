\* Dispatchers that leave started_at out, as create_attempt does.
CONSTANTS
  NumTasks = 2
  Runners = {r1, r2}
  MaxAttempts = 2
  Stamps = {FALSE}
  MayFail = TRUE
  MayCrash = TRUE
SPECIFICATION Spec
INVARIANTS
  TypeOK
  AttemptsSurvive
  SuccessHasText
PROPERTIES
  CallsEnd
