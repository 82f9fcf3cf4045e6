SPECIFICATION FairSpec
CONSTANTS
  c1 = c1
  c2 = c2
  c3 = c3
  c4 = c4
  c5 = c5
  c6 = c6
  e1 = e1
  e2 = e2
  e3 = e3
  e4 = e4
  e5 = e5
  Call <- MCCall
  Execution <- MCExecution
  ExecutionOf <- MCExecutionOf
  ModeOf <- MCModeOf
  ProductionLimit = 1
  EvaluationLimit = 1
  ScalingMode = FALSE
INVARIANTS
  TypeOK
  LinesAreTheQueuedCalls
  CapacityAccounting
  NoIdleCapacity
  AdmissionBound
PROPERTIES
  NoOvertaking
  NoAdmissionFromLineOnceDisabled
  EveryoneInLineLeavesIt
