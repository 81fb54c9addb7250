\* Two connections of a route with two peers, in every mode; the peers may stay silent.
SPECIFICATION FairForward
CONSTANTS
  N = 2
  Clients = {c1, c2}
  Modes = {"down", "drain", "spill"}
  CoolMin = 1
  CoolMax = 2
  Handshake = 2
  DrainBudget = 2
  SpillBudget = 1
  MaxStreak = 2
  MaxTime = 2
INVARIANT RepeatsOnlyEarliest
PROPERTIES TimeShared ForwardingEnds
CHECK_DEADLOCK FALSE
