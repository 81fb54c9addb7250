\* Three processes under a supervisor.
SPECIFICATION FairHandover
CONSTANTS
  NP = 3
  Listeners = {"a"}
  Grace = 1
  StartsAt <- SteppedClock
  Proc = TRUE
  MaxReloads = 1
  MaxFaults = 1
INVARIANT SupersededByLater
PROPERTIES ImplementsCover HandoverCompletes
CHECK_DEADLOCK FALSE
