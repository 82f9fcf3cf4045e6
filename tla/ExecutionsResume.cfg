SPECIFICATION Spec
CONSTANTS
  n1 = n1
  n2 = n2
  r1 = r1
  r2 = r2
  b1 = b1
  e1 = e1
  e2 = e2
  None = None
  Call <- ResumeCall
  Execution <- NewExecution
  ExecutionOf <- ResumeExecutionOf
  OriginOf <- ResumeOrigin
  InitialStatus <- ResumeStatus
  ModeOf <- AllWebhook
  ProductionLimit = 2
  EvaluationLimit <- Unlimited
  ScalingMode = FALSE
  Stoppable = {e1}
  Env = {"wait", "shutdown", "dbFailure"}
CHECK_DEADLOCK FALSE
INVARIANTS
  TypeOK
  AtMostOneRunner
  WaitingRowIsIdle
  NoLeak
  WatchedRunHoldsReservation
PROPERTIES
  RefinesConcurrencyControl
