SPECIFICATION ElectionSpec
CONSTANTS
  m1 = m1
  m2 = m2
  m3 = m3
  h1 = h1
  h2 = h2
  None = None
  Main <- MCMain
  Host <- MCHost
  HostOf <- MCHostOf
  MaxOutstanding <- MCMaxOutstanding
  MaxLapses = 1
CHECK_DEADLOCK FALSE
INVARIANTS
  ElectionTypeOK
  OneLeaderUnlessLapsed
PROPERTIES
  ResignClearsOwnKey
  EventuallyOneLeader
