\* A route with two peers, one reload, one connection slot.
SPECIFICATION SpillControlSpec
CONSTANTS
  Peers = {"p", "q"}
  Dests = {"h1"}
  Conns = {c1}
  Configs <- MCConfigs
  InitConfig <- Base
  MaxTables = 2
  LocalLoads = {2}
  PeerLoads <- MCPeerLoads
  Distances <- MCDistances
  Failing = {"p"}
  MaxConcurrentProbes = 1
  SampleValid = 1
  ReportTtl = 2
  MaxControlStep = 1
  Whole = 2
INVARIANT ShareRamps
PROPERTY AdmissionsHonoured
CHECK_DEADLOCK FALSE
