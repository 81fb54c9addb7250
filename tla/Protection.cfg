\* One configuration with every limit on, two slots racing; and limits switched off
\* and on while checks run and connections are open.
SPECIFICATION Spec
CONSTANTS
  Conns = {c1, c2}
  Peers <- MCPeers
  IPs <- MCIPs
  Canonical <- MCCanonical
  Hellos <- MCHellos
  Configs <- MCConfigs
  InitConfigs <- MCInitConfigs
  Reloads <- MCReloads
  Refs = {1, 2, 3}
  NoRef = 0
  OneToken = 2
  MaxTime <- MCMaxTime
  MaxCharged <- MCMaxCharged
SYMMETRY Slots
INVARIANTS CountsExact LimitsHold ReportAgrees
PROPERTY PenaltyNeverShortened
CHECK_DEADLOCK FALSE
