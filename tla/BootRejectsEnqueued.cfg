SPECIFICATION Spec
CONSTANTS
  n1 = n1
  n2 = n2
  r1 = r1
  r2 = r2
  b1 = b1
  e1 = e1
  e2 = e2
  None = None
  Call <- BootCall
  Execution <- NewExecution
  ExecutionOf <- BootExecutionOf
  OriginOf <- BootOrigin
  InitialStatus <- BootStatus
  ModeOf <- AllWebhook
  ProductionLimit = 1
  EvaluationLimit <- Unlimited
  ScalingMode = FALSE
  Stoppable = {}
  Env = {}
CHECK_DEADLOCK FALSE
INVARIANTS
  EnqueuedRunAfterBoot
