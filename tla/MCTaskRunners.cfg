SPECIFICATION Spec
CONSTANTS
  launcher = launcher
  runner = runner
  q1 = q1
  q2 = q2
  None = None
  Runner = {launcher, runner}
  Launcher = {launcher}
  Request = {q1, q2}
  MaxOffers <- MCMaxOffers
  MaxLosses = 1
  MaxConcurrency = 2
CHECK_DEADLOCK FALSE
INVARIANTS
  TypeOK
  SlotsBound
  TasksAreAtTheirRunner
  RunningRequestHasItsTask
PROPERTIES
  SettingsAreExpected
  ServesAtMostOnce
SYMMETRY MCSymmetry
