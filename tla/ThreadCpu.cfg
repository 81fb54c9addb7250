SPECIFICATION Spec
CONSTANTS
  Pids = {1, 2}
  Configured = 1
  Kinds <- MCKinds
  Discoveries = {1}
  Retry = 1
  Recheck = 1
  Valid = 2
  MaxDelay = 1
  MaxEvents = 2
INVARIANT SampleOfOneThread
PROPERTY LoadSettles
CHECK_DEADLOCK FALSE
