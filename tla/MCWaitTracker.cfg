SPECIFICATION Spec
CONSTANTS
  m1 = m1
  m2 = m2
  m3 = m3
  h1 = h1
  h2 = h2
  e1 = e1
  None = None
  Host <- MCHost
  Execution <- MCExecution
  Main <- ThreeMains
  HostOf <- MCHostOf
  MaxOutstanding <- SlowFirst
  MaxLapses = 0
  MaxWaits = 1
  SlowBoot = TRUE
CHECK_DEADLOCK FALSE
INVARIANTS
  TrackerTypeOK
  ResumedOncePerWait
  PollersHoldTheKey
PROPERTIES
  EveryWaitIsResumedIfLeadersTrack
