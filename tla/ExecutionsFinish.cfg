SPECIFICATION FairSpec
CONSTANTS
  n1 = n1
  n2 = n2
  r1 = r1
  r2 = r2
  b1 = b1
  e1 = e1
  e2 = e2
  None = None
  Call <- NewCall
  Execution <- NewExecution
  ExecutionOf <- NewExecutionOf
  OriginOf <- NewOrigin
  InitialStatus <- NoRows
  ModeOf <- AllWebhook
  ProductionLimit = 1
  EvaluationLimit <- Unlimited
  ScalingMode = FALSE
  Stoppable = {e1}
  Env = {"wait", "timeout", "issues", "credentials", "dbFailure", "hookFailure"}
CHECK_DEADLOCK FALSE
PROPERTIES
  EveryEntrySettles
  EveryoneThrottledGetsATurn
  NoRowStaysRunning
