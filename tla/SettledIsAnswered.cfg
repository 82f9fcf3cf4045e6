SPECIFICATION Spec
CONSTANTS
  m1 = m1
  m2 = m2
  w1 = w1
  w2 = w2
  e1 = e1
  e2 = e2
  None = None
  Main = {m1}
  Worker = {w1}
  Execution = {e1}
  Stoppable = {e1}
  MaxCrashes = 0
  MaxStalls = 1
  MaxHandovers = 0
CHECK_DEADLOCK FALSE
INVARIANT SettledIsAnswered
